---------------------------- MODULE Spec2Model ----------------------------
(***************************************************************************)
(* Model of the TESPy combustion engine component                          *)
(* (src/tespy/components/combustion/combustion_engine.py): the equation /  *)
(* Jacobian contribution protocol of one component over one solve.         *)
(*                                                                         *)
(* Numbers are integers standing for the floats of the program; the data   *)
(* (heating value, characteristic lines, operating points) are chosen so   *)
(* that every division the program performs is exact on the states the     *)
(* model visits (ExactDivisions).  Ports are numbered as the columns of    *)
(* the Jacobian: 0..3 = in1..in4, 4..6 = out1..out3.  Properties are       *)
(* numbered as its third axis: 0 = m, 1 = p, 2 = h, 3.. = fluids.          *)
(***************************************************************************)
EXTENDS Integers, Sequences, FiniteSets, TLC

VARIABLES
    pc,                    \* position of the driver in the solve
    num_nw_fluids,         \* F: number of network fluids
    always_all_equations,  \* driver flag: recompute every row in every call
    conn,                  \* conn[port] = [m, p, h, fluid]: connection state
    val,                   \* val[param]: value of each component parameter
    is_set,                \* is_set[param]: fixed by the user
    is_var,                \* is_var[param]: free variable of the system
    var_pos,               \* var_pos[param]: free-variable slot
    P_design,              \* P.design: <<value>>, or NaN when not recorded
    num_vars,              \* number of free variables of the component
    num_eq,                \* number of equations of the component
    residual,              \* residual[k], k \in 0..num_eq-1
    jacobian,              \* jacobian[k][col][prop]
    it,                    \* iteration counter set by the driver
    evald,                 \* rows whose function the last equations() called
    increment_filter,      \* mask handed to the last derivatives() call
    last_eval,             \* last_eval[k]: value of it when row k was last
                           \* evaluated (-1: never)
    bound_expr,            \* load ratio the last calc_parameters() handed to
                           \* get_bound_errors (NaN: none yet)
    bus_out,               \* outcome of the last bus_func / bus_deriv call
    T_v_inner,             \* T_v_inner: [val, is_set]
    entropy,               \* the entropy diagnostics (NaN: none yet)
    m_SI,                  \* m_SI[port]: mass flow in tenths of kg/s, as the
                           \* decimal literal the user wrote
    mass_residual,         \* what mass_flow_func returned (NaN: not called)
    loop_SI,               \* cooling loop 1 on the doubles: its state, what
                           \* calc_parameters stored and what the targets
                           \* return (NaN: not looked at)
    fd,                    \* the finite difference derivatives() is in:
                           \* [n, phase], NaN outside numeric_deriv
    peer_seen,             \* what the component sharing in1 read during its
                           \* own assembly: [it, m, h] (NaN: nothing yet)
    propagated             \* fluid propagation: the flags of the connections
                           \* (val_set, good), the topology of the cooling
                           \* loops (closed) and the trace of the last call

vars == <<pc, num_nw_fluids, always_all_equations, conn, val, is_set, is_var,
          var_pos, P_design, num_vars, num_eq, residual, jacobian, it, evald,
          increment_filter, last_eval, bound_expr, bus_out, T_v_inner, entropy,
          m_SI, mass_residual, loop_SI, fd, peer_seen, propagated>>

\* what the solve leaves alone: the outputs of post-processing and of the
\* bus accounting, and the double-precision evaluation of the mass balance
post_vars ==
    <<bound_expr, bus_out, T_v_inner, entropy, m_SI, mass_residual, loop_SI,
      fd, peer_seen, propagated>>

---------------------------------------------------------------------------
(* Bounds of the model.                                                    *)

MaxFluids == 2      \* F ranges over 1..MaxFluids
MaxIt == 5          \* the driver stops after this many iterations
MaxItJac == 1       \* iterations of the Jacobian specification
MaxItPost == 3      \* iterations before post-processing
MaxItShared == 2    \* iterations of the shared-connection specification
MaxDepth == 6       \* recursion limit of the interpreter, in calls
MaxTenths == 5      \* combustion inlet mass flows range over 0.1 .. MaxTenths/10

---------------------------------------------------------------------------
(* Arithmetic.                                                             *)

Abs(x) == IF x < 0 THEN -x ELSE x
NaN == << >>                       \* not a number: no value recorded

\* a / b of the program, for the exact divisions of the model
Quot(a, b) == a \div b
Exact(a, b) == b # 0 /\ a % Abs(b) = 0

RECURSIVE Sum(_, _)
\* sum of f[i] over the finite set S of indices
Sum(f, S) ==
    IF S = {} THEN 0
    ELSE LET i == CHOOSE j \in S : TRUE IN f[i] + Sum(f, S \ {i})

---------------------------------------------------------------------------
(* Names and static data of the component.                                 *)

Inlets == 0 .. 3                   \* in1, in2, in3, in4
Outlets == 4 .. 6                  \* out1, out2, out3
Ports == 0 .. 6
num_i == 4
num_o == 3

\* the optional parameters that add an equation when is_set, in the order
\* of comp_init, equations() and derivatives()
OptParams == <<"lamb", "ti", "Q1", "Q2", "pr1", "pr2", "zeta1", "zeta2">>
\* the component properties of attr(), in declaration order
Params == <<"lamb", "ti", "P", "Q1", "Q2", "Qloss",
            "pr1", "pr2", "zeta1", "zeta2">>
ParamSet == {Params[i] : i \in 1 .. Len(Params)}
OptSet == {OptParams[i] : i \in 1 .. Len(OptParams)}

Fluids == 1 .. num_nw_fluids
num_nw_vars == num_nw_fluids + 3
Props == 0 .. (num_nw_vars - 1)
\* column of fluid f (1-based fluid index) on the property axis
FluidCol(f) == 3 + (f - 1)

\* self.fuel_list and self.fuels[f]['LHV'] (set up by the base combustion
\* chamber): fluid 1 is the only fuel
fuel_list == {f \in Fluids : f = 1}
LHV(f) == 12

\* the reference state of the energy balance
T_ref == 29815                     \* 298.15 K, in 0.01 K
p_ref == 100000                    \* 1e5 Pa

\* compositions used by the scenarios: pure fuel, combustion air / flue gas
\* (fluid 2 when the network has it), cooling water (the last fluid)
PureFluid(g) == [f \in Fluids |-> IF f = g THEN 1 ELSE 0]
FuelGas == PureFluid(1)
AirGas == PureFluid(IF num_nw_fluids >= 2 THEN 2 ELSE 1)
Water == PureFluid(num_nw_fluids)

\* Fluid-property oracle h_mix_pT(flow, T, force_gas): mass-weighted sum of
\* the species enthalpies at (p, T); a species not forced to gas lacks its
\* enthalpy of evaporation.  Only the reference state is tabulated exactly.
h_species(f, p, T, force_gas) ==
    (IF f = 1 THEN 1 ELSE 0) + (IF force_gas THEN 0 ELSE -3)
        + (IF T = T_ref THEN 0 ELSE 5) + (IF p = p_ref THEN 0 ELSE 7)

h_mix_pT(p, fluid, T, force_gas) ==
    Sum([f \in Fluids |-> fluid[f] * h_species(f, p, T, force_gas)], Fluids)

\* Characteristic lines: ordered samples <<x, y>>; default lines of the
\* component
tiP_char == << <<0, 6>>, <<1, 12>>, <<2, 6>>, <<3, 4>> >>
Q1_char == << <<0, 2>>, <<1, 1>>, <<2, 1>>, <<3, 1>> >>
Q2_char == << <<0, 1>>, <<1, 2>>, <<2, 3>>, <<3, 3>> >>
Qloss_char == << <<0, 1>>, <<1, 1>>, <<2, 1>>, <<3, 3>> >>

\* index of the segment [x_i, x_i+1] used for x: the bracketing one, or the
\* boundary segment outside the sampled range
Segment(char, x) ==
    IF x < char[1][1] THEN 1
    ELSE IF x >= char[Len(char)][1] THEN Len(char) - 1
    ELSE CHOOSE i \in 1 .. (Len(char) - 1) :
            char[i][1] <= x /\ x < char[i + 1][1]

\* char.func.evaluate(x): piecewise-linear interpolation
evaluate(char, x) ==
    LET i == Segment(char, x)
    IN  char[i][2]
            + Quot((x - char[i][1]) * (char[i + 1][2] - char[i][2]),
                   char[i + 1][1] - char[i][1])

---------------------------------------------------------------------------
(* The residual functions.  Each takes the connection state c and the      *)
(* parameter values v it is evaluated on, so that the finite differences   *)
(* can evaluate it on a perturbed state.                                   *)

\* calc_ti
calc_ti(c, v) ==
    Sum([f \in fuel_list |->
            (c[2].m * c[2].fluid[f] + c[3].m * c[3].fluid[f]
                - c[6].m * c[6].fluid[f]) * LHV(f)],
        fuel_list)

load_ratio_design_point(c, v) == 1

\* the load ratio "expr" of the characteristic functions
load_ratio(c, v) ==
    IF P_design = NaN THEN 1 ELSE Quot(v["P"], P_design[1])

\* sum over self.inl[2:] minus sum over self.outl[2:] of m * (h - h_ref)
eb_flows(c) ==
    c[2].m * (c[2].h - h_mix_pT(p_ref, c[2].fluid, T_ref, TRUE))
        + c[3].m * (c[3].h - h_mix_pT(p_ref, c[3].fluid, T_ref, TRUE))
        - c[6].m * (c[6].h - h_mix_pT(p_ref, c[6].fluid, T_ref, TRUE))

\* cooling water: sum over both loops of m_in * (h_out - h_in)
eb_cooling(c) ==
    c[0].m * (c[4].h - c[0].h) + c[1].m * (c[5].h - c[1].h)

energy_balance_minusP(c, v) ==
    eb_flows(c) + calc_ti(c, v) - eb_cooling(c) - (v["P"] + v["Qloss"])

\* energy_balance
energy_balance(c, v) ==
    eb_flows(c) + calc_ti(c, v) - eb_cooling(c) + (v["P"] + v["Qloss"])

\* tiP_char_func
tiP_char_func(c, v) ==
    calc_ti(c, v) + evaluate(tiP_char, load_ratio(c, v)) * v["P"]

\* Q1_char_func
Q1_char_func(c, v) ==
    calc_ti(c, v) * evaluate(Q1_char, load_ratio(c, v))
        - evaluate(tiP_char, load_ratio(c, v)) * c[0].m * (c[4].h - c[0].h)

\* Q2_char_func
Q2_char_func(c, v) ==
    calc_ti(c, v) * evaluate(Q2_char, load_ratio(c, v))
        - evaluate(tiP_char, load_ratio(c, v)) * c[1].m * (c[5].h - c[1].h)

\* Qloss_char_func
Qloss_char_func(c, v) ==
    calc_ti(c, v) * evaluate(Qloss_char, load_ratio(c, v))
        + evaluate(tiP_char, load_ratio(c, v)) * v["Qloss"]

calc_P_plus(c, v) ==
    Quot(calc_ti(c, v), evaluate(tiP_char, load_ratio(c, v)))

\* calc_P
calc_P(c, v) ==
    Quot(-calc_ti(c, v), evaluate(tiP_char, load_ratio(c, v)))

\* calc_Qloss
calc_Qloss(c, v) ==
    Quot(-calc_ti(c, v) * evaluate(Qloss_char, load_ratio(c, v)),
         evaluate(tiP_char, load_ratio(c, v)))

\* Q1_func, Q2_func
Q1_func(c, v) == c[0].m * (c[4].h - c[0].h) + v["Q1"]
Q2_func(c, v) == c[1].m * (c[5].h - c[1].h) + v["Q2"]

\* fluid_func: [x_in1 - x_out1 for every fluid] + [x_in2 - x_out2 ...]
fluid_func(c) ==
    [r \in 0 .. (2 * num_nw_fluids - 1) |->
        c[r \div num_nw_fluids].fluid[(r % num_nw_fluids) + 1]
            - c[num_i + (r \div num_nw_fluids)].fluid[(r % num_nw_fluids) + 1]]

\* mass_flow_func
mass_flow_func(c) ==
    [r \in 0 .. 2 |->
        IF r < 2 THEN c[r].m - c[num_i + r].m
        ELSE c[2].m + c[3].m - c[6].m]

\* Base combustion chamber (collaborator), over the ports in3, in4, out3:
\* mass of a species entering, minus leaving, plus the mass the reaction
\* produces (the fuel burns completely into fluid 2).
fuel_in(c) ==
    Sum([f \in fuel_list |-> c[2].m * c[2].fluid[f] + c[3].m * c[3].fluid[f]],
        fuel_list)

reaction_balance(c, v, fluid) ==
    c[2].m * c[2].fluid[fluid] + c[3].m * c[3].fluid[fluid]
        - c[6].m * c[6].fluid[fluid]
        + (IF fluid \in fuel_list
             THEN -(c[2].m * c[2].fluid[fluid] + c[3].m * c[3].fluid[fluid])
             ELSE IF fluid = 2 THEN fuel_in(c) ELSE 0)

\* lambda_func: oxygen supplied minus lamb times the stoichiometric demand
lambda_func(c, v) ==
    (IF num_nw_fluids >= 2
       THEN c[2].m * c[2].fluid[2] + c[3].m * c[3].fluid[2] ELSE 0)
        - v["lamb"] * 2 * fuel_in(c)

\* ti_func
ti_func(c, v) == v["ti"] - calc_ti(c, v)

\* zeta_func(zeta, inconn, outconn), with unit specific volume
zeta_func(c, v, zeta, inconn, outconn) ==
    v[zeta] * Abs(c[inconn].m) * c[inconn].m
        - (c[inconn].p - c[num_i + outconn].p)

---------------------------------------------------------------------------
(* The bus accounting.  A call returns [raised, ret]: ret holds the value  *)
(* returned, and nothing when the call raised ValueError.                  *)

Returned(x) == [raised |-> FALSE, ret |-> <<x>>]
ValueError == [raised |-> TRUE, ret |-> NaN]

\* the names bus_func and bus_deriv compare bus['param'] with
BusParams == {"TI", "P", "Q", "Q1", "Q2", "Qloss"}
\* the names a bus entry is given in the model
BusNames == BusParams \cup {"ti", "Q3"}

bus_func_lenient(param, c, v) ==
    CASE param = "TI" -> Returned(calc_ti(c, v))
      [] param = "P" -> Returned(calc_P(c, v))
      [] param = "Q" ->
            Returned(-(c[0].m * (c[4].h - c[0].h))
                        - c[1].m * (c[5].h - c[1].h))
      [] param = "Q1" -> Returned(-c[0].m * (c[4].h - c[0].h))
      [] param = "Q2" -> Returned(-c[1].m * (c[5].h - c[1].h))
      [] param = "Qloss" -> Returned(calc_Qloss(c, v))
      [] OTHER -> Returned(0)

\* bus_func
bus_func(param, c, v) ==
    CASE param = "TI" -> Returned(calc_ti(c, v))
      [] param = "P" -> Returned(calc_P(c, v))
      [] param = "Q" ->
            Returned(-(c[0].m * (c[4].h - c[0].h))
                        - c[1].m * (c[5].h - c[1].h))
      [] param = "Q1" -> Returned(-c[0].m * (c[4].h - c[0].h))
      [] param = "Q2" -> Returned(-c[1].m * (c[5].h - c[1].h))
      [] param = "Qloss" -> Returned(calc_Qloss(c, v))
      [] OTHER -> ValueError

\* Component.calc_bus_value (collaborator): the bus function under a bus
\* characteristic of factor 1
calc_bus_value(param, c, v) == bus_func(param, c, v).ret[1]

---------------------------------------------------------------------------
(* Row layout.  A row descriptor [eq, f] names one equation; f is the      *)
(* position inside a block (0 for single rows).                            *)

Row(eq, f) == [eq |-> eq, f |-> f]
Block(eq, n) == [j \in 1 .. n |-> Row(eq, j)]
OptRow(set, name) == IF set[name] THEN <<Row(name, 0)>> ELSE << >>

\* the optional rows in the order equations() appends them
EqOptional(set) ==
    OptRow(set, "lamb") \o OptRow(set, "ti") \o OptRow(set, "Q1")
        \o OptRow(set, "Q2") \o OptRow(set, "pr1") \o OptRow(set, "pr2")
        \o OptRow(set, "zeta1") \o OptRow(set, "zeta2")

\* the rows equations() writes, in the order of its counter k
EqSeq(set) ==
    Block("fluid", 2 * num_nw_fluids) \o Block("mass", 3)
        \o Block("pressure", 2) \o Block("rb", num_nw_fluids)
        \o <<Row("eb", 0), Row("tiP", 0), Row("Q1c", 0), Row("Q2c", 0),
             Row("Qlossc", 0)>>
        \o EqOptional(set)

\* the rows whose evaluation equations() guards with the re-evaluation test
Guarded(d) ==
    d.eq \in {"rb", "eb", "tiP", "Q1c", "Q2c", "Qlossc", "zeta1", "zeta2"}

\* value of the equation of row d on the state (c, v)
EqValue(d, c, v) ==
    CASE d.eq = "fluid" -> fluid_func(c)[d.f - 1]
      [] d.eq = "mass" -> mass_flow_func(c)[d.f - 1]
      [] d.eq = "pressure" ->
            IF d.f = 1 THEN c[2].p - c[6].p ELSE c[2].p - c[3].p
      [] d.eq = "rb" -> reaction_balance(c, v, d.f)
      [] d.eq = "eb" -> energy_balance(c, v)
      [] d.eq = "tiP" -> tiP_char_func(c, v)
      [] d.eq = "Q1c" -> Q1_char_func(c, v)
      [] d.eq = "Q2c" -> Q2_char_func(c, v)
      [] d.eq = "Qlossc" -> Qloss_char_func(c, v)
      [] d.eq = "lamb" -> lambda_func(c, v)
      [] d.eq = "ti" -> ti_func(c, v)
      [] d.eq = "Q1" -> Q1_func(c, v)
      [] d.eq = "Q2" -> Q2_func(c, v)
      [] d.eq = "pr1" -> v["pr1"] * c[0].p - c[4].p
      [] d.eq = "pr2" -> v["pr2"] * c[1].p - c[5].p
      [] d.eq = "zeta1" -> zeta_func(c, v, "zeta1", 0, 0)
      [] d.eq = "zeta2" -> zeta_func(c, v, "zeta2", 1, 1)
      [] d.eq = "bus" -> calc_bus_value(d.f, c, v)

\* err of tespy.tools.global_vars is 1 / ErrDen
ErrDen == 1000000
\* |r| > err ** 2, computed without leaving the 32-bit integers:
\* |r| > 1 / ErrDen^2  <=>  |r| * ErrDen > 1 \div ErrDen
GtErrSq(r) == Abs(r) * ErrDen > 1 \div ErrDen

recompute_no_period(prev, i, always) == GtErrSq(prev) \/ always
recompute_no_always(prev, i, always) == GtErrSq(prev) \/ i % 4 = 0
recompute_every_fifth(prev, i, always) ==
    GtErrSq(prev) \/ i % 5 = 0 \/ always

\* the re-evaluation test: np.absolute(self.residual[k]) > err ** 2 or
\* self.it % 4 == 0 or self.always_all_equations
recompute(prev, i, always) == GtErrSq(prev) \/ i % 4 = 0 \/ always

---------------------------------------------------------------------------
(* Finite differences (base component): central difference of a residual   *)
(* function with respect to one state scalar.                              *)

\* perturbation of a connection property and of a component parameter
d_conn == 1
d_param == 1                       \* P and Qloss: dc_cp(d=1)

Shift(c, pos, dx, d) ==
    CASE dx = "m" -> [c EXCEPT ![pos].m = @ + d]
      [] dx = "p" -> [c EXCEPT ![pos].p = @ + d]
      [] dx = "h" -> [c EXCEPT ![pos].h = @ + d]

ShiftFluid(c, pos, f, d) == [c EXCEPT ![pos].fluid[f] = @ + d]

\* numeric_deriv(func, dx, pos) for dx in 'm', 'p', 'h'; func is the
\* residual function of row d
numeric_deriv(d, dx, pos, c, v) ==
    Quot(EqValue(d, Shift(c, pos, dx, d_conn), v)
             - EqValue(d, Shift(c, pos, dx, -d_conn), v),
         2 * d_conn)

\* numeric_deriv(func, 'fluid', pos): one entry per fluid
numeric_deriv_fluid(d, pos, c, v) ==
    [f \in Fluids |->
        Quot(EqValue(d, ShiftFluid(c, pos, f, d_conn), v)
                 - EqValue(d, ShiftFluid(c, pos, f, -d_conn), v),
             2 * d_conn)]

\* numeric_deriv(func, 'P', 7) and numeric_deriv(func, 'Qloss', 7)
numeric_deriv_param(d, name, c, v) ==
    Quot(EqValue(d, c, [v EXCEPT ![name] = @ + d_param])
             - EqValue(d, c, [v EXCEPT ![name] = @ - d_param]),
         2 * d_param)

---------------------------------------------------------------------------
(* derivatives(increment_filter).  A write is <<column, property, value>>; *)
(* the writes of one row are applied in program order.                     *)

DerivStart_pressure_rows == num_nw_fluids * 2 + 3
DerivStart == num_nw_fluids * 2 + 5

DerivOptional_swapped(set) ==
    OptRow(set, "lamb") \o OptRow(set, "ti") \o OptRow(set, "Q2")
        \o OptRow(set, "Q1") \o OptRow(set, "pr1") \o OptRow(set, "pr2")
        \o OptRow(set, "zeta1") \o OptRow(set, "zeta2")

\* the optional rows in the order derivatives() handles them
DerivOptional(set) ==
    OptRow(set, "lamb") \o OptRow(set, "ti") \o OptRow(set, "Q1")
        \o OptRow(set, "Q2") \o OptRow(set, "pr1") \o OptRow(set, "pr2")
        \o OptRow(set, "zeta1") \o OptRow(set, "zeta2")

\* the rows derivatives() writes from row DerivStart on, in the order of
\* its counter k
DerivSeq(set) ==
    Block("rb", num_nw_fluids)
        \o <<Row("eb", 0), Row("tiP", 0), Row("Q1c", 0), Row("Q2c", 0),
             Row("Qlossc", 0)>>
        \o DerivOptional(set)

RECURSIVE ApplyWrites(_, _)
ApplyWrites(row, ws) ==
    IF ws = << >> THEN row
    ELSE ApplyWrites([row EXCEPT ![ws[1][1]][ws[1][2]] = ws[1][3]], Tail(ws))

filtered_never(M, port, prop) == FALSE

\* increment_filter[port, prop]
filtered(M, port, prop) == M[port][prop]

\* all(increment_filter[port, 3:])
all_fluids_filtered(M, port) ==
    \A f \in Fluids : filtered(M, port, FluidCol(f))

\* "if not increment_filter[col, prop]: jacobian[k, col, prop] = value"
W(cond, col, prop, value) == IF cond THEN << <<col, prop, value>> >> ELSE << >>
\* "jacobian[k, col, 3:] = vec"
WF(cond, col, vec) ==
    IF cond THEN [j \in 1 .. num_nw_fluids |-> <<col, FluidCol(j), vec[j]>>]
    ELSE << >>

\* the residual functions derivatives() differentiates: f = self....
f_rb(fluid) == Row("rb", fluid)    \* rb_numeric_deriv(..., fluid)
f_eb == Row("eb", 0)               \* f = self.energy_balance
f_tiP == Row("tiP", 0)             \* f = self.tiP_char_func
f_Q1c == Row("Q1c", 0)             \* f = self.Q1_char_func
f_Q2c == Row("Q2c", 0)             \* f = self.Q2_char_func
f_Qlossc == Row("Qlossc", 0)       \* f = self.Qloss_char_func
f_lamb == Row("lamb", 0)           \* f = self.lambda_func
f_ti == Row("ti", 0)               \* f = self.ti_func
f_zeta(name) == Row(name, 0)       \* f = self.zeta_func, zeta=name

\* mass-flow and composition columns of one combustion port
CombWrites(f, M, i, c, v) ==
    W(~filtered(M, i, 0), i, 0, numeric_deriv(f, "m", i, c, v))
        \o WF(~all_fluids_filtered(M, i), i, numeric_deriv_fluid(f, i, c, v))

\* "if self.P.is_var" / "if self.Qloss.is_var": column 7 + var_pos
VarWrite(f, name, c, v) ==
    W(is_var[name], 7 + var_pos[name], 0, numeric_deriv_param(f, name, c, v))

\* the cooling-loop columns of the heat-output characteristic rows
CoolWrites(f, M, i, c, v) ==
    W(~filtered(M, i, 0), i, 0, numeric_deriv(f, "m", i, c, v))
        \o W(~filtered(M, i, 2), i, 2, numeric_deriv(f, "h", i, c, v))
        \o W(~filtered(M, num_i + i, 2), num_i + i, 2,
             numeric_deriv(f, "h", num_i + i, c, v))

\* mass flow and pressure of one combustion port in the energy balance
EbCombWrites(M, i, c, v) ==
    W(~filtered(M, i, 0), i, 0, numeric_deriv(f_eb, "m", i, c, v))
        \o W(~filtered(M, i, 1), i, 1, numeric_deriv(f_eb, "p", i, c, v))

EbWrites(M, c, v) ==
    \* mass flow cooling water
    W(TRUE, 0, 0, -(c[4].h - c[0].h))
        \o W(TRUE, 1, 0, -(c[5].h - c[1].h))
    \* mass flow and pressure for combustion reaction
        \o EbCombWrites(M, 2, c, v) \o EbCombWrites(M, 3, c, v)
        \o EbCombWrites(M, 6, c, v)
    \* enthalpy
        \o [i \in 1 .. 4 |-> <<i - 1, 2, c[i - 1].m>>]
        \o [i \in 1 .. 3 |-> <<i - 1 + 4, 2, -c[num_i + i - 1].m>>]
    \* fluid composition: fuel_list holds fluid 1 alone
        \o W(1 \in fuel_list, 2, FluidCol(1), c[2].m * LHV(1))
        \o W(1 \in fuel_list, 3, FluidCol(1), c[3].m * LHV(1))
        \o W(1 \in fuel_list, 6, FluidCol(1), -(c[6].m * LHV(1)))
    \* power and heat loss
        \o VarWrite(f_eb, "P", c, v)
        \o VarWrite(f_eb, "Qloss", c, v)

ZetaWrites(M, name, i, c, v) ==
    W(~filtered(M, i, 0), i, 0, numeric_deriv(f_zeta(name), "m", i, c, v))
        \o W(~filtered(M, i, 1), i, 1,
             numeric_deriv(f_zeta(name), "p", i, c, v))
        \o W(~filtered(M, i, 2), i, 2,
             numeric_deriv(f_zeta(name), "h", i, c, v))
        \o W(~filtered(M, num_i + i, 1), num_i + i, 1,
             numeric_deriv(f_zeta(name), "p", num_i + i, c, v))
        \o W(~filtered(M, num_i + i, 2), num_i + i, 2,
             numeric_deriv(f_zeta(name), "h", num_i + i, c, v))

\* the three combustion ports: for i in [2, 3, 6]
CombPorts(f, M, c, v) ==
    CombWrites(f, M, 2, c, v) \o CombWrites(f, M, 3, c, v)
        \o CombWrites(f, M, 6, c, v)

\* the specified thermal input: no increment_filter test in this block
TiWrites(i, c, v) ==
    W(TRUE, i, 0, numeric_deriv(f_ti, "m", i, c, v))
        \o WF(TRUE, i, numeric_deriv_fluid(f_ti, i, c, v))

\* the writes derivatives() makes to the row of equation d
WritesOf(d, M, c, v) ==
    CASE d.eq = "rb" -> CombPorts(f_rb(d.f), M, c, v)
      [] d.eq = "eb" -> EbWrites(M, c, v)
      [] d.eq = "tiP" ->
            CombPorts(f_tiP, M, c, v) \o VarWrite(f_tiP, "P", c, v)
      [] d.eq = "Q1c" ->
            CoolWrites(f_Q1c, M, 0, c, v) \o CombPorts(f_Q1c, M, c, v)
                \o VarWrite(f_Q1c, "P", c, v)
      [] d.eq = "Q2c" ->
            CoolWrites(f_Q2c, M, 1, c, v) \o CombPorts(f_Q2c, M, c, v)
                \o VarWrite(f_Q2c, "P", c, v)
      [] d.eq = "Qlossc" ->
            CombPorts(f_Qlossc, M, c, v) \o VarWrite(f_Qlossc, "P", c, v)
                \o VarWrite(f_Qlossc, "Qloss", c, v)
      [] d.eq = "lamb" ->
            CombWrites(f_lamb, M, 2, c, v) \o CombWrites(f_lamb, M, 3, c, v)
      [] d.eq = "ti" ->
            TiWrites(2, c, v) \o TiWrites(3, c, v) \o TiWrites(6, c, v)
      [] d.eq = "Q1" ->
            W(TRUE, 0, 0, c[4].h - c[0].h)
                \o W(TRUE, 0, 2, -c[0].m) \o W(TRUE, 4, 2, c[0].m)
      [] d.eq = "Q2" ->
            W(TRUE, 1, 0, c[5].h - c[1].h)
                \o W(TRUE, 1, 2, -c[1].m) \o W(TRUE, 5, 2, c[1].m)
      [] d.eq = "pr1" -> W(TRUE, 0, 1, v["pr1"]) \o W(TRUE, 4, 1, -1)
      [] d.eq = "pr2" -> W(TRUE, 1, 1, v["pr2"]) \o W(TRUE, 5, 1, -1)
      [] d.eq = "zeta1" -> ZetaWrites(M, "zeta1", 0, c, v)
      [] d.eq = "zeta2" -> ZetaWrites(M, "zeta2", 1, c, v)

---------------------------------------------------------------------------
(* comp_init.                                                              *)

Cols(nv) == 0 .. (7 + nv - 1)
ZeroRow(nv) == [col \in Cols(nv) |-> [prop \in Props |-> 0]]
Entry(one, minus, col, prop) ==
    IF <<col, prop>> \in one THEN 1
    ELSE IF <<col, prop>> \in minus THEN -1 ELSE 0

\* the second loop started again at row 0
fluid_deriv_from_row_0(nv) ==
    [r \in 0 .. (num_nw_fluids * 2 - 1) |->
        [col \in Cols(nv) |-> [prop \in Props |->
            IF r < num_nw_fluids
            THEN Entry({<<0, r + 3>>, <<1, r + 3>>},
                       {<<4, r + 3>>, <<5, r + 3>>}, col, prop)
            ELSE 0]]]

\* fluid_deriv: rows 0..F-1 for in1/out1; the second loop continues at row
\* i + 1 + j with the last i of the first loop, that is at row F + j
fluid_deriv(nv) ==
    [r \in 0 .. (num_nw_fluids * 2 - 1) |->
        [col \in Cols(nv) |-> [prop \in Props |->
            IF r < num_nw_fluids
            THEN Entry({<<0, r + 3>>}, {<<4, r + 3>>}, col, prop)
            ELSE LET j == r - ((num_nw_fluids - 1) + 1)
                 IN  Entry({<<1, j + 3>>}, {<<5, j + 3>>}, col, prop)]]]

\* mass_flow_deriv
mass_flow_deriv(nv) ==
    [r \in 0 .. 2 |->
        [col \in Cols(nv) |-> [prop \in Props |->
            IF r < 2
            THEN Entry({<<r, 0>>}, {<<num_i + r, 0>>}, col, prop)
            ELSE Entry({<<2, 0>>, <<3, 0>>}, {<<6, 0>>}, col, prop)]]]

\* pressure_deriv
pressure_deriv(nv) ==
    [r \in 0 .. 1 |->
        [col \in Cols(nv) |-> [prop \in Props |->
            IF r = 0
            THEN Entry({<<2, 1>>}, {<<6, 1>>}, col, prop)
            ELSE Entry({<<2, 1>>}, {<<3, 1>>}, col, prop)]]]

\* self.set_attr(P='var'): the parameter becomes a free variable
mark_variable(var, name) == [var EXCEPT ![name] = TRUE]

promote_always(set, var, name) == mark_variable(var, name)

\* "if not self.P.is_set: self.set_attr(P='var')"
promote(set, var, name) ==
    IF ~set[name] THEN mark_variable(var, name) ELSE var

\* Component.comp_init: every free variable gets the next slot, in the
\* declaration order of the parameters
VarSlots(var) ==
    [name \in ParamSet |->
        Cardinality({i \in 1 .. Len(Params) :
                        /\ var[Params[i]]
                        /\ \E j \in 1 .. Len(Params) :
                              Params[j] = name /\ i < j})]

CountSet(set) == Cardinality({name \in OptSet : set[name]})

\* the count without the fixed targets
count_equations_fixed_part(set) ==
    num_nw_fluids * 2 + 3 + 2 + num_nw_fluids + 5

count_equations_with_P(set) ==
    num_nw_fluids * 2 + 3 + 2 + num_nw_fluids + 5
        + Cardinality({name \in ParamSet : set[name]})

\* num_eq of comp_init
count_equations(set) ==
    num_nw_fluids * 2 + 3 + 2 + num_nw_fluids + 5 + CountSet(set)

\* the Jacobian comp_init allocates and pre-fills
initial_jacobian(ne, nv) ==
    LET pos == num_nw_fluids * 2
    IN  [k \in 0 .. (ne - 1) |->
            IF k < pos THEN fluid_deriv(nv)[k]
            ELSE IF k < pos + 3 THEN mass_flow_deriv(nv)[k - pos]
            ELSE IF k < pos + 5 THEN pressure_deriv(nv)[k - (pos + 3)]
            ELSE ZeroRow(nv)]

NoFilter == [port \in Ports |-> [prop \in Props |-> FALSE]]

counted_before_promotion(before, after) == before

\* Component.comp_init(self, nw) runs after the two promotions: the flags
\* it counts are the promoted ones
counted_flags(before, after) == after

CompInit ==
    /\ pc = "new"
    /\ LET var1 == promote(is_set, promote(is_set, is_var, "P"), "Qloss")
           seen == counted_flags(is_var, var1)
           nv == Cardinality({name \in ParamSet : seen[name]})
           ne == count_equations(is_set)
       IN  /\ is_var' = var1
           /\ num_vars' = nv
           /\ var_pos' = VarSlots(seen)
           /\ num_eq' = ne
           /\ jacobian' = initial_jacobian(ne, nv)
           /\ residual' = [k \in 0 .. (ne - 1) |-> 0]
           /\ last_eval' = [k \in 0 .. (ne - 1) |-> -1]
    /\ it' = 0
    /\ pc' = "eq"
    /\ UNCHANGED <<num_nw_fluids, always_all_equations, conn, val, is_set,
                   P_design, evald, increment_filter, post_vars>>

---------------------------------------------------------------------------
(* equations() and derivatives().                                          *)

Reevaluated(k, d) ==
    ~Guarded(d) \/ recompute(residual[k], it, always_all_equations)

Equations ==
    /\ pc = "eq"
    /\ LET rows == EqSeq(is_set)
       IN  /\ residual' =
                 [k \in DOMAIN residual |->
                     IF k + 1 > Len(rows) THEN residual[k]
                     ELSE IF Reevaluated(k, rows[k + 1])
                          THEN EqValue(rows[k + 1], conn, val)
                          ELSE residual[k]]
           /\ evald' = {k \in DOMAIN residual :
                           k + 1 <= Len(rows) /\ Reevaluated(k, rows[k + 1])}
           /\ last_eval' =
                 [k \in DOMAIN residual |->
                     IF k + 1 <= Len(rows) /\ Reevaluated(k, rows[k + 1])
                     THEN it ELSE last_eval[k]]
    /\ pc' = "de"
    /\ UNCHANGED <<num_nw_fluids, always_all_equations, conn, val, is_set,
                   is_var, var_pos, P_design, num_vars, num_eq, jacobian, it,
                   increment_filter, post_vars>>

\* the driver's convergence test on one entry, |r| < err ** 0.5, computed
\* without leaving the 32-bit integers (r^2 < 1 / ErrDen <=>
\* |r| * ErrDen < 1 / |r|), and on the residual buffer
BelowTol(r) == IF r = 0 THEN TRUE ELSE Abs(r) * ErrDen < 1 \div Abs(r)
Converged == \A k \in DOMAIN residual : BelowTol(residual[k])

\* the driver finds the residual buffer converged and ends the loop
Converge ==
    /\ pc = "de"
    /\ Converged
    /\ pc' = "done"
    /\ UNCHANGED <<num_nw_fluids, always_all_equations, conn, val, is_set,
                   is_var, var_pos, P_design, num_vars, num_eq, residual,
                   jacobian, it, evald, increment_filter, last_eval,
                   post_vars>>

\* derivatives() allocating a fresh array for the connections' columns only
new_jacobian_connections_only(M) ==
    LET rows == DerivSeq(is_set)
    IN  [k \in DOMAIN jacobian |->
            [col \in 0 .. 6 |->
                (IF k < DerivStart \/ k - DerivStart + 1 > Len(rows)
                 THEN jacobian[k]
                 ELSE ApplyWrites(jacobian[k],
                                  WritesOf(rows[k - DerivStart + 1], M, conn,
                                           val)))[col]]]

\* derivatives(): item assignments into the array comp_init allocated
new_jacobian(M) ==
    LET rows == DerivSeq(is_set)
    IN  [k \in DOMAIN jacobian |->
            IF k < DerivStart \/ k - DerivStart + 1 > Len(rows)
            THEN jacobian[k]
            ELSE ApplyWrites(jacobian[k],
                             WritesOf(rows[k - DerivStart + 1], M, conn, val))]

Derivatives(M) ==
    /\ pc = "de"
    /\ ~Converged
    /\ jacobian' = new_jacobian(M)
    /\ increment_filter' = M
    /\ pc' = "upd"
    /\ UNCHANGED <<num_nw_fluids, always_all_equations, conn, val, is_set,
                   is_var, var_pos, P_design, num_vars, num_eq, residual, it,
                   evald, last_eval, post_vars>>

---------------------------------------------------------------------------
(* calc_parameters: post-processing of the converged state.                *)

\* CombustionChamber.calc_parameters (collaborator): the shared bookkeeping
\* of the combustion chamber, the thermal input and the air excess
base_calc_parameters(c, v) ==
    [v EXCEPT !["ti"] = calc_ti(c, v),
              !["lamb"] = Quot(c[2].m * c[2].fluid[2] + c[3].m * c[3].fluid[2],
                               2 * fuel_in(c))]

\* the loop "for i in range(2)": Q, pr and zeta of cooling loop i + 1, with
\* the unit specific volume of zeta_func
loop_parameters(c, v, i) ==
    LET Q == IF i = 0 THEN "Q1" ELSE "Q2"
        pr == IF i = 0 THEN "pr1" ELSE "pr2"
        zeta == IF i = 0 THEN "zeta1" ELSE "zeta2"
    IN  [v EXCEPT ![Q] = -c[i].m * (c[num_i + i].h - c[i].h),
                  ![pr] = Quot(c[num_i + i].p, c[i].p),
                  ![zeta] = Quot(c[i].p - c[num_i + i].p, c[i].m * c[i].m)]

\* the parameter values calc_parameters leaves: the two loops, then
\* P.val = calc_P(), then Qloss.val = calc_Qloss() on the new P.val
own_parameters(c, v) ==
    LET v1 == loop_parameters(c, loop_parameters(c, v, 0), 1)
        v2 == [v1 EXCEPT !["P"] = calc_P(c, v1)]
    IN  [v2 EXCEPT !["Qloss"] = calc_Qloss(c, v2)]

\* calc_parameters
CalcParameters ==
    /\ pc = "done"
    /\ val' = base_calc_parameters(conn, own_parameters(conn, val))
    \* the argument of the four get_bound_errors calls, on the new P.val
    /\ bound_expr' = <<load_ratio(conn, own_parameters(conn, val))>>
    /\ pc' = "post"
    /\ UNCHANGED <<num_nw_fluids, always_all_equations, conn, is_set, is_var,
                   var_pos, P_design, num_vars, num_eq, residual, jacobian, it,
                   evald, increment_filter, last_eval, bus_out, T_v_inner,
                   entropy, m_SI, mass_residual, loop_SI, fd, peer_seen,
                   propagated>>

---------------------------------------------------------------------------
(* entropy_balance: diagnostics of the converged and post-processed state. *)
(* The quantities are quotients <<numerator, denominator>>, carried        *)
(* without rounding; a zero denominator stands for a division by zero.     *)

Whole(x) == <<x, 1>>
FNeg(a) == <<-a[1], a[2]>>
FMul(a, b) == <<a[1] * b[1], a[2] * b[2]>>
FDiv(a, b) ==
    IF b[1] < 0 THEN <<-(a[1] * b[2]), -(a[2] * b[1])>>
    ELSE <<a[1] * b[2], a[2] * b[1]>>
FAdd(a, b) ==
    IF a[2] = 0 \/ b[2] = 0 THEN <<a[1] * b[2] + b[1] * a[2], 0>>
    ELSE IF a[2] % b[2] = 0
         THEN <<a[1] + b[1] * (a[2] \div b[2]), a[2]>>
    ELSE IF b[2] % a[2] = 0
         THEN <<a[1] * (b[2] \div a[2]) + b[1], b[2]>>
    ELSE <<a[1] * b[2] + b[1] * a[2], a[2] * b[2]>>
FSub(a, b) == FAdd(a, FNeg(b))

\* eta_mech: dc_simple(val=0.85)
eta_mech == <<17, 20>>

\* x ** 0.5 for the perfect squares the pressure ratios take
Sqrt(x) == CHOOSE r \in 0 .. x : r * r = x

\* Fluid-property oracles (collaborators): temperature and entropy of a
\* flow from (p, h, fluid), and entropy of a mixture at (p, T)
T_mix_ph(p, h, fluid) == 300 + 50 * h
s_mix_ph(p, h, fluid) ==
    2 * h - p + Sum([f \in Fluids |-> fluid[f] * f], Fluids)
s_species(f, p, T, force_gas) ==
    f + (IF force_gas THEN 0 ELSE -3) + (IF T = T_ref THEN 0 ELSE 5)
        + (IF p = p_ref THEN 0 ELSE 7)
s_mix_pT(p, fluid, T, force_gas) ==
    Sum([f \in Fluids |-> fluid[f] * s_species(f, p, T, force_gas)], Fluids)

\* c.T.val_SI and c.s.val_SI of a connection (post-processed by the network)
T_of(cn) == T_mix_ph(cn.p, cn.h, cn.fluid)
s_of(cn) == s_mix_ph(cn.p, cn.h, cn.fluid)

T_v_inner_overwritten(tv, o) == [tv EXCEPT !.val = <<T_of(o)>>]

\* "if not self.T_v_inner.is_set: self.T_v_inner.val = o.T.val_SI"
T_v_inner_default(tv, o) ==
    IF ~tv.is_set THEN [tv EXCEPT !.val = <<T_of(o)>>] ELSE tv

\* S_Qcomb: the flue gas minus the two combustion inlets, each against the
\* reference state
S_Qcomb(c) ==
    c[6].m * (s_of(c[6]) - s_mix_pT(p_ref, c[6].fluid, T_ref, TRUE))
        - c[2].m * (s_of(c[2]) - s_mix_pT(p_ref, c[2].fluid, T_ref, TRUE))
        - c[3].m * (s_of(c[3]) - s_mix_pT(p_ref, c[3].fluid, T_ref, TRUE))

\* the loop "for i in range(2)": S_Q<i+1>2, S_irr<i+1> and T_mQ<i+1>
loop_entropy(c, v, i) ==
    LET inl == c[i]
        out == c[num_i + i]
        p_star == inl.p * Sqrt(v[IF i = 0 THEN "pr1" ELSE "pr2"])
        s_i_star == s_mix_ph(p_star, inl.h, inl.fluid)
        s_o_star == s_mix_ph(p_star, out.h, out.fluid)
        S_Q == inl.m * (s_o_star - s_i_star)
    IN  [S_Q2 |-> Whole(S_Q),
         S_irr |-> Whole(inl.m * (s_of(out) - s_of(inl)) - S_Q),
         T_mQ |-> FDiv(Whole(inl.m * (out.h - inl.h)), Whole(S_Q))]

\* the attributes entropy_balance assigns, with T_v_inner as left by the
\* default rule
entropy_balance(c, v, tv) ==
    LET T_v == Whole(tv.val[1])
        l1 == loop_entropy(c, v, 0)
        l2 == loop_entropy(c, v, 1)
        P_irr_i == FMul(FSub(FDiv(Whole(1), eta_mech), Whole(1)),
                        Whole(v["P"]))
        S_Q11 == FDiv(Whole(v["Q1"]), T_v)
        S_Q21 == FDiv(Whole(v["Q2"]), T_v)
        S_Qloss == FDiv(Whole(v["Qloss"]), T_v)
        S_irr_i == FDiv(P_irr_i, T_v)
        S_Q1irr == FSub(l1.S_Q2, S_Q11)
        S_Q2irr == FSub(l2.S_Q2, S_Q21)
        S_comb == FSub(FSub(FSub(FSub(Whole(S_Qcomb(c)), S_Q11), S_Q21),
                            S_Qloss), S_irr_i)
    IN  [S_Qcomb |-> Whole(S_Qcomb(c)),
         S_Q12 |-> l1.S_Q2, S_irr1 |-> l1.S_irr, T_mQ1 |-> l1.T_mQ,
         S_Q22 |-> l2.S_Q2, S_irr2 |-> l2.S_irr, T_mQ2 |-> l2.T_mQ,
         P_irr_i |-> P_irr_i,
         S_Q11 |-> S_Q11, S_Q21 |-> S_Q21, S_Qloss |-> S_Qloss,
         S_irr_i |-> S_irr_i,
         S_Q1irr |-> S_Q1irr, S_Q2irr |-> S_Q2irr,
         S_comb |-> S_comb,
         T_mcomb |-> FDiv(Whole(calc_ti(c, v)), S_comb),
         S_irr |-> FAdd(FAdd(FAdd(FAdd(S_irr_i, l2.S_irr), l1.S_irr),
                             S_Q1irr), S_Q2irr)]

\* entropy_balance
EntropyBalance ==
    /\ pc = "post"
    /\ T_v_inner' = T_v_inner_default(T_v_inner, conn[6])
    /\ entropy' =
          entropy_balance(conn, val, T_v_inner_default(T_v_inner, conn[6]))
    /\ UNCHANGED <<pc, num_nw_fluids, always_all_equations, conn, val, is_set,
                   is_var, var_pos, P_design, num_vars, num_eq, residual,
                   jacobian, it, evald, increment_filter, last_eval,
                   bound_expr, bus_out, m_SI, mass_residual, loop_SI, fd,
                   peer_seen, propagated>>

---------------------------------------------------------------------------
(* bus_func and bus_deriv as the driver calls them.                        *)

f_bus(param) == Row("bus", param)  \* f = self.calc_bus_value

\* "for i in [2, 3, 6]": mass flow and composition of the combustion ports
BusCombWrites(param, c, v) ==
    [j \in 1 .. 3 |->
        LET i == <<2, 3, 6>>[j]
        IN  W(TRUE, i, 0, numeric_deriv(f_bus(param), "m", i, c, v))
                \o WF(TRUE, i, numeric_deriv_fluid(f_bus(param), i, c, v))]

\* mass flow and both enthalpies of cooling loop i + 1
BusLoopWrites(param, i, c, v) ==
    W(TRUE, i, 0, numeric_deriv(f_bus(param), "m", i, c, v))
        \o W(TRUE, i, 2, numeric_deriv(f_bus(param), "h", i, c, v))
        \o W(TRUE, i + 4, 2, numeric_deriv(f_bus(param), "h", i + 4, c, v))

BusWrites(param, c, v) ==
    CASE param = "TI" ->
            BusCombWrites(param, c, v)[1] \o BusCombWrites(param, c, v)[2]
                \o BusCombWrites(param, c, v)[3]
      [] param = "P" \/ param = "Qloss" ->
            BusCombWrites(param, c, v)[1] \o BusCombWrites(param, c, v)[2]
                \o BusCombWrites(param, c, v)[3]
                \o VarWrite(f_bus(param), "P", c, v)
      [] param = "Q" ->
            BusLoopWrites(param, 0, c, v) \o BusLoopWrites(param, 1, c, v)
      [] param = "Q1" -> BusLoopWrites(param, 0, c, v)
      [] param = "Q2" -> BusLoopWrites(param, 1, c, v)
      [] OTHER -> << >>

\* bus_deriv: the else branch raises as bus_func does
bus_deriv(param, c, v) ==
    IF bus_func(param, c, v).raised THEN ValueError
    ELSE Returned(ApplyWrites(ZeroRow(num_vars), BusWrites(param, c, v)))

BusCall(call, param, out) ==
    /\ pc \in {"upd", "post"}
    /\ bus_out' = [call |-> call, param |-> param, raised |-> out.raised,
                   val |-> IF call = "bus_func" THEN out.ret ELSE NaN,
                   deriv |-> IF call = "bus_deriv" THEN out.ret ELSE NaN]
    /\ UNCHANGED <<pc, num_nw_fluids, always_all_equations, conn, val, is_set,
                   is_var, var_pos, P_design, num_vars, num_eq, residual,
                   jacobian, it, evald, increment_filter, last_eval,
                   bound_expr, T_v_inner, entropy, m_SI, mass_residual,
                   loop_SI, fd, peer_seen, propagated>>

BusFunc(param) == BusCall("bus_func", param, bus_func(param, conn, val))
BusDeriv(param) == BusCall("bus_deriv", param, bus_deriv(param, conn, val))

---------------------------------------------------------------------------
(* The driver: the state before the solve and the state updates.           *)

\* a converged operating point of the engine
BaseConn ==
    [port \in Ports |->
        CASE port = 0 -> [m |-> 1, p |-> 2, h |-> 1, fluid |-> Water]
          [] port = 4 -> [m |-> 1, p |-> 1, h |-> 2, fluid |-> Water]
          [] port = 1 -> [m |-> 2, p |-> 1, h |-> 1, fluid |-> Water]
          [] port = 5 -> [m |-> 2, p |-> 1, h |-> 2, fluid |-> Water]
          [] port = 2 -> [m |-> 2, p |-> 1, h |-> 2, fluid |-> AirGas]
          [] port = 3 -> [m |-> 1, p |-> 1, h |-> 2, fluid |-> FuelGas]
          [] port = 6 -> [m |-> 3, p |-> 1, h |-> 4, fluid |-> AirGas]]

\* the starting values of a solve: off the operating point in the enthalpy
\* of the combustion air
StartConn == [BaseConn EXCEPT ![2].h = 3]

\* the parameter values of that operating point
BaseVal ==
    [name \in ParamSet |->
        CASE name = "lamb" -> 1
          [] name = "ti" -> 12
          [] name = "P" -> -1
          [] name = "Q1" -> -1
          [] name = "Q2" -> -2
          [] name = "Qloss" -> -1
          [] name = "pr1" -> 1
          [] name = "pr2" -> 1
          [] name = "zeta1" -> 1
          [] name = "zeta2" -> 0]

SetOf(S) == [name \in ParamSet |-> name \in S]

\* no bus has asked the component yet
NoBusCall ==
    [call |-> "none", param |-> "", raised |-> FALSE, val |-> NaN,
     deriv |-> NaN]

\* no fluid propagation has run; no fraction is set by the user, no
\* connection has good starting values, the cooling loops are open
NoProp ==
    [val_set |-> [port \in Ports |-> [f \in Fluids |-> FALSE]],
     good |-> [port \in Ports |-> FALSE],
     closed |-> [k \in 0 .. 1 |-> FALSE],
     call |-> "none", inconn |-> -1, start |-> "", visits |-> 0,
     error |-> FALSE, crossed |-> {}, written |-> {}]

\* T_v_inner: dc_simple() holds no value until the user sets one
NoT_v_inner == [val |-> NaN, is_set |-> FALSE]

\* the state after construction and the user's set_attr calls, the solve
\* starting from one of the connection states Conns
InitAt(Fs, Sets, Always, Designs, Conns, Tvs) ==
    /\ pc = "new"
    /\ num_nw_fluids \in Fs
    /\ always_all_equations \in Always
    /\ conn \in Conns
    /\ val = BaseVal
    /\ is_set \in Sets
    /\ is_var = SetOf({})
    /\ var_pos = [name \in ParamSet |-> 0]
    /\ P_design \in Designs
    /\ num_vars = 0
    /\ num_eq = 0
    /\ residual = << >>
    /\ jacobian = << >>
    /\ it = 0
    /\ evald = {}
    /\ increment_filter = NoFilter
    /\ last_eval = << >>
    /\ bound_expr = NaN
    /\ bus_out = NoBusCall
    /\ T_v_inner \in Tvs
    /\ entropy = NaN
    /\ mass_residual = NaN
    /\ fd = NaN
    /\ peer_seen = NaN

InitWith(Fs, Sets, Always, Designs) ==
    /\ InitAt(Fs, Sets, Always, Designs, {BaseConn, StartConn},
              {NoT_v_inner})
    /\ m_SI = NaN
    /\ loop_SI = NaN
    /\ propagated = NoProp

Knobs == {"h3", "m1", "m4", "h4", "xo", "P", "Qloss"}

Toggle(x, a, b) == IF x = a THEN b ELSE a

\* the driver applies a state update and starts the next iteration
DriverUpdate(knob, last) ==
    /\ pc = "upd"
    /\ it < last
    /\ knob \in {"P", "Qloss"} => is_var[knob]
    /\ conn' =
          CASE knob = "h3" -> [conn EXCEPT ![2].h = Toggle(@, 2, 3)]
            [] knob = "m1" -> [conn EXCEPT ![0].m = Toggle(@, 1, 2)]
            [] knob = "m4" -> [conn EXCEPT ![3].m = Toggle(@, 1, 2)]
            [] knob = "h4" -> [conn EXCEPT ![4].h = Toggle(@, 2, 3)]
            [] knob = "xo" ->
                  [conn EXCEPT ![6].fluid = Toggle(@, AirGas, FuelGas)]
            [] knob = "p3" -> [conn EXCEPT ![2].p = Toggle(@, 1, 2)]
            \* air, fuel and flue gas doubled together
            [] knob = "load" ->
                  [conn EXCEPT ![2].m = Toggle(@, 2, 4),
                               ![3].m = Toggle(conn[2].m, 2, 4) \div 2,
                               ![6].m = 3 * (Toggle(conn[2].m, 2, 4) \div 2)]
            [] OTHER -> conn
    /\ val' =
          CASE knob = "P" -> [val EXCEPT !["P"] = Toggle(@, -1, -2)]
            [] knob = "Qloss" ->
                  [val EXCEPT !["Qloss"] = Toggle(@, -1, -2)]
            [] OTHER -> val
    /\ it' = it + 1
    /\ pc' = "eq"
    /\ UNCHANGED <<num_nw_fluids, always_all_equations, is_set, is_var,
                   var_pos, P_design, num_vars, num_eq, residual, jacobian,
                   evald, increment_filter, last_eval, post_vars>>

---------------------------------------------------------------------------
(* Specifications.                                                         *)

\* The Newton loop on a few configurations.
Cases ==
    {<<SetOf({}), FALSE, NaN>>, <<SetOf({}), FALSE, <<-1>> >>,
     <<SetOf({}), TRUE, NaN>>, <<SetOf(ParamSet), FALSE, NaN>>,
     <<SetOf({"P", "lamb", "Q1", "zeta1"}), FALSE, <<-1>> >>}

Init ==
    \E case \in Cases :
        InitWith({MaxFluids}, {case[1]}, {case[2]}, {case[3]})

Next ==
    \/ CompInit
    \/ Equations
    \/ Converge
    \/ Derivatives(NoFilter)
    \/ \E knob \in Knobs : DriverUpdate(knob, MaxIt)

Spec == Init /\ [][Next]_vars

\* Every combination of fixed parameters, one iteration.
InitConfig ==
    InitWith(1 .. MaxFluids, {SetOf(S) : S \in SUBSET ParamSet},
             {FALSE}, {NaN})

NextConfig ==
    \/ CompInit
    \/ Equations
    \/ Converge
    \/ Derivatives(NoFilter)

SpecConfig == InitConfig /\ [][NextConfig]_vars

\* Jacobian assembly under the driver's masks.
AllFilter == [port \in Ports |-> [prop \in Props |-> TRUE]]
Single(p0, q0) ==
    [port \in Ports |-> [prop \in Props |-> port = p0 /\ prop = q0]]
Masks ==
    {NoFilter, AllFilter, Single(0, 0), Single(0, 1), Single(0, 2),
     Single(4, 2), Single(2, 0), Single(2, 1), Single(6, 0), Single(6, 3)}

InitJac ==
    InitWith({MaxFluids}, {SetOf({}), SetOf(ParamSet)}, {TRUE}, {<<-1>>})

NextJac ==
    \/ CompInit
    \/ Equations
    \/ Converge
    \/ \E M \in Masks : Derivatives(M)
    \/ \E knob \in Knobs : DriverUpdate(knob, MaxItJac)

SpecJac == InitJac /\ [][NextJac]_vars

\* The solve followed by post-processing and the bus accounting.
\* the operating point with no pressure loss in cooling loop 1
PostConn == [BaseConn EXCEPT ![4].p = 2]
\* starting values off the operating point: in the enthalpy of the
\* combustion air, or in its pressure
PostStarts ==
    {PostConn, [PostConn EXCEPT ![2].h = 3], [PostConn EXCEPT ![2].p = 2]}

PostCases ==
    {<<SetOf({}), NaN>>, <<SetOf({}), <<-1>> >>,
     <<SetOf({"P", "Q1", "pr1"}), NaN>>}

PostKnobs == {"h3", "xo", "p3", "load", "P", "Qloss"}

\* the flue-gas composition moves only where no design power is recorded,
\* the load only where one is: the scenarios stay on the sampled part of the
\* characteristic lines
PostUpdate(knob) ==
    /\ knob = "xo" => P_design = NaN
    /\ knob = "load" => P_design # NaN /\ val["P"] = -1
    /\ knob = "P" => conn[2].m = 2
    /\ DriverUpdate(knob, MaxItPost)

\* T_v_inner left alone or set by the user (K)
PostT_v_inner == {NoT_v_inner, [val |-> <<400>>, is_set |-> TRUE]}

InitPost ==
    \E case \in PostCases :
        /\ InitAt({MaxFluids}, {case[1]}, {FALSE}, {case[2]}, PostStarts,
                  PostT_v_inner)
        /\ T_v_inner.is_set => case = <<SetOf({}), NaN>>
        /\ m_SI = NaN
        /\ loop_SI = NaN
        /\ propagated = NoProp

NextPost ==
    \/ CompInit
    \/ Equations
    \/ Converge
    \/ Derivatives(NoFilter)
    \/ \E knob \in PostKnobs : PostUpdate(knob)
    \/ CalcParameters
    \/ EntropyBalance
    \/ \E param \in BusNames : BusFunc(param)
    \/ \E param \in BusNames : BusDeriv(param)

SpecPost == InitPost /\ [][NextPost]_vars

---------------------------------------------------------------------------
(* derivatives() step by step, next to a component that shares the         *)
(* connection in1.  The residual functions take no argument and read       *)
(* self.inl / self.outl, so numeric_deriv(func, dx, pos) perturbs the       *)
(* connection itself, calls func, and puts the value back.  Derivatives    *)
(* above is the call as a whole, which leaves the connections as it found  *)
(* them; here the finite differences of the Q1_char_func row on cooling    *)
(* loop 1 are taken one step at a time.                                    *)

\* numeric_deriv(f, 'm', 0), numeric_deriv(f, 'h', 0), numeric_deriv(f, 'h', 4)
FdSeq == << <<"m", 0>>, <<"h", 0>>, <<"h", 4>> >>

\* numeric_deriv: the connection with the scalar moved by d
Perturbed(c, n, d) == Shift(c, FdSeq[n][2], FdSeq[n][1], d)

\* derivatives() enters its first finite difference on loop 1
FdBegin ==
    /\ pc = "de"
    /\ ~Converged
    /\ conn' = Perturbed(conn, 1, d_conn)
    /\ fd' = [n |-> 1, phase |-> "up"]
    /\ pc' = "fd"
    /\ UNCHANGED <<num_nw_fluids, always_all_equations, val, is_set, is_var,
                   var_pos, P_design, num_vars, num_eq, residual, jacobian, it,
                   evald, increment_filter, last_eval, bound_expr, bus_out,
                   T_v_inner, entropy, m_SI, mass_residual, loop_SI,
                   peer_seen,
                   propagated>>

\* the next step of the finite difference: x + d, x - d, x, then the next
\* finite difference
FdStep ==
    /\ pc = "fd"
    /\ \/ /\ fd.phase = "up"
          /\ conn' = Perturbed(conn, fd.n, -2 * d_conn)
          /\ fd' = [fd EXCEPT !.phase = "down"]
       \/ /\ fd.phase = "down"
          /\ conn' = Perturbed(conn, fd.n, d_conn)
          /\ fd' = [fd EXCEPT !.phase = "back"]
       \/ /\ fd.phase = "back"
          /\ fd.n < Len(FdSeq)
          /\ conn' = Perturbed(conn, fd.n + 1, d_conn)
          /\ fd' = [n |-> fd.n + 1, phase |-> "up"]
    /\ UNCHANGED <<pc, num_nw_fluids, always_all_equations, val, is_set,
                   is_var, var_pos, P_design, num_vars, num_eq, residual,
                   jacobian, it, evald, increment_filter, last_eval,
                   bound_expr, bus_out, T_v_inner, entropy, m_SI,
                   mass_residual, loop_SI, peer_seen, propagated>>

\* derivatives() returns: the rows hold the differences taken
FdEnd ==
    /\ pc = "fd"
    /\ fd = [n |-> Len(FdSeq), phase |-> "back"]
    /\ jacobian' = new_jacobian(NoFilter)
    /\ increment_filter' = NoFilter
    /\ fd' = NaN
    /\ pc' = "upd"
    /\ UNCHANGED <<num_nw_fluids, always_all_equations, conn, val, is_set,
                   is_var, var_pos, P_design, num_vars, num_eq, residual, it,
                   evald, last_eval, bound_expr, bus_out, T_v_inner, entropy,
                   m_SI, mass_residual, loop_SI, peer_seen, propagated>>

\* the component at the other end of in1 assembles its own rows in the same
\* iteration and reads the connection
PeerRead ==
    /\ pc \in {"eq", "de", "fd"}
    /\ peer_seen' = [it |-> it, m |-> conn[0].m, h |-> conn[0].h]
    /\ UNCHANGED <<pc, num_nw_fluids, always_all_equations, conn, val, is_set,
                   is_var, var_pos, P_design, num_vars, num_eq, residual,
                   jacobian, it, evald, increment_filter, last_eval,
                   bound_expr, bus_out, T_v_inner, entropy, m_SI,
                   mass_residual, loop_SI, fd, propagated>>

InitShared ==
    InitWith({MaxFluids}, {SetOf({}), SetOf({"Q1"})}, {FALSE}, {NaN})

NextShared ==
    \/ CompInit
    \/ Equations
    \/ Converge
    \/ FdBegin
    \/ FdStep
    \/ FdEnd
    \/ PeerRead
    \/ \E knob \in Knobs : DriverUpdate(knob, MaxItShared)

SpecShared == InitShared /\ [][NextShared]_vars

---------------------------------------------------------------------------
(* Fluid propagation before the solve.  The engine's methods are called by *)
(* the network or by a neighbour with a connection and the component the   *)
(* propagation started at.  A cooling loop k is open (its outlet ends in a *)
(* sink, its inlet begins at a source) or closed by a component that       *)
(* forwards the composition from out_k to in_k and back, and that stops    *)
(* when it is the component the propagation started at.  A state of the    *)
(* propagation is [fluid, visits, error, crossed, written]: compositions,  *)
(* entries into the engine, RecursionError raised, engine connections      *)
(* handed to a neighbour, engine connections assigned by the engine.       *)

\* the component that closes cooling loop k
LoopComp(k) == IF k = 0 THEN "loop1" ELSE "loop2"
Starts == {"engine", "loop1", "loop2", "other"}

\* the inner loop "for fluid, x in inconn.fluid.val.items()": a fraction is
\* assigned unless it is set by the user or the connection has good
\* starting values
copy_fluid(st, fl, from, to) ==
    [st EXCEPT !.fluid[to] =
        [f \in Fluids |->
            IF ~fl.val_set[to][f] /\ ~fl.good[to]
            THEN st.fluid[from][f] ELSE st.fluid[to][f]]]

assigns(fl, to) == ~fl.good[to] /\ \E f \in Fluids : ~fl.val_set[to][f]

\* the same loop in the engine, with the assigned connection recorded
engine_copy(st, fl, from, to) ==
    [copy_fluid(st, fl, from, to) EXCEPT
        !.written = IF assigns(fl, to) THEN @ \cup {to} ELSE @]

RaiseRecursionError(st) == [st EXCEPT !.error = TRUE]

RECURSIVE propagate_fluid_to_target(_, _, _, _, _)
RECURSIVE to_target_outconn(_, _, _, _, _, _)
RECURSIVE target_propagate(_, _, _, _, _)
RECURSIVE propagate_fluid_to_source(_, _, _, _, _)
RECURSIVE to_source_inconn(_, _, _, _, _, _)
RECURSIVE source_propagate(_, _, _, _, _)

\* outl[k].target.propagate_fluid_to_target(outl[k], start)
target_propagate(st, fl, k, start, depth) ==
    IF ~fl.closed[k] THEN st
    ELSE IF depth = 0 THEN RaiseRecursionError(st)
    ELSE IF start = LoopComp(k) THEN st
    ELSE propagate_fluid_to_target(copy_fluid(st, fl, num_i + k, k), fl, k,
                                   start, depth - 1)

\* one pass of "for outconn in self.outl[:2]"
to_target_outconn(st, fl, inconn, start, depth, i) ==
    IF st.error THEN st
    ELSE target_propagate(
             [engine_copy(st, fl, inconn, num_i + i) EXCEPT
                 !.crossed = @ \cup {num_i + i}],
             fl, i, start, depth - 1)

\* propagate_fluid_to_target(self, inconn, start)
propagate_fluid_to_target(st, fl, inconn, start, depth) ==
    IF depth = 0 THEN RaiseRecursionError(st)
    ELSE to_target_outconn(
             to_target_outconn([st EXCEPT !.visits = @ + 1], fl, inconn,
                               start, depth, 0),
             fl, inconn, start, depth, 1)

\* inl[k].source.propagate_fluid_to_source(inl[k], start)
source_propagate(st, fl, k, start, depth) ==
    IF ~fl.closed[k] THEN st
    ELSE IF depth = 0 THEN RaiseRecursionError(st)
    ELSE IF start = LoopComp(k) THEN st
    ELSE propagate_fluid_to_source(copy_fluid(st, fl, k, num_i + k), fl,
                                   num_i + k, start, depth - 1)

\* one pass of "for inconn in self.inl[:2]"
to_source_inconn(st, fl, outconn, start, depth, i) ==
    IF st.error THEN st
    ELSE source_propagate(
             [engine_copy(st, fl, outconn, i) EXCEPT
                 !.crossed = @ \cup {i}],
             fl, i, start, depth - 1)

\* propagate_fluid_to_source(self, outconn, start)
propagate_fluid_to_source(st, fl, outconn, start, depth) ==
    IF depth = 0 THEN RaiseRecursionError(st)
    ELSE to_source_inconn(
             to_source_inconn([st EXCEPT !.visits = @ + 1], fl, outconn,
                              start, depth, 0),
             fl, outconn, start, depth, 1)

\* the propagation state a call starts from
CallState ==
    [fluid |-> [port \in Ports |-> conn[port].fluid], visits |-> 0,
     error |-> FALSE, crossed |-> {}, written |-> {}]

\* the call returned or raised: compositions and trace are recorded
Propagated(call, inconn, start, st) ==
    /\ conn' = [port \in Ports |->
                  [conn[port] EXCEPT !.fluid = st.fluid[port]]]
    /\ propagated' =
          [propagated EXCEPT !.call = call, !.inconn = inconn,
                             !.start = start, !.visits = st.visits,
                             !.error = st.error, !.crossed = st.crossed,
                             !.written = st.written]
    /\ UNCHANGED <<pc, num_nw_fluids, always_all_equations, val, is_set,
                   is_var, var_pos, P_design, num_vars, num_eq, residual,
                   jacobian, it, evald, increment_filter, last_eval,
                   bound_expr, bus_out, T_v_inner, entropy, m_SI,
                   mass_residual, loop_SI, fd, peer_seen>>

PropagateFluidToTarget(inconn, start) ==
    /\ pc = "new"
    /\ Propagated("propagate_fluid_to_target", inconn, start,
                  propagate_fluid_to_target(CallState, propagated, inconn,
                                            start, MaxDepth))

PropagateFluidToSource(outconn, start) ==
    /\ pc = "new"
    /\ Propagated("propagate_fluid_to_source", outconn, start,
                  propagate_fluid_to_source(CallState, propagated, outconn,
                                            start, MaxDepth))

\* fg of initialise_fluids: the flue-gas species (N2, CO2, O2 and H2O, whose
\* fractions add up to 1) are the non-fuel fluid 2 of the model
fg_keys == {f \in Fluids : f = 2}
fg(f) == 1

\* sum_fuel: half the fuel fractions of all inlets
sum_fuel2(c) ==
    Sum([f \in fuel_list |->
            c[0].fluid[f] + c[1].fluid[f] + c[2].fluid[f] + c[3].fluid[f]],
        fuel_list)

\* initialise_fluids: the guess of the flue-gas composition at out3, handed
\* on across out3 with out3's target as the start of the propagation; without
\* fuel in any inlet the normalisation divides by zero
initialise_fluids(st, fl, c) ==
    IF sum_fuel2(c) = 0 THEN [st EXCEPT !.error = TRUE]
    ELSE [st EXCEPT
             !.fluid[6] =
                 [f \in Fluids |->
                     IF ~fl.val_set[6][f] /\ f \in fg_keys
                     THEN fg(f) ELSE st.fluid[6][f]],
             !.written =
                 IF \E f \in fg_keys : ~fl.val_set[6][f]
                 THEN @ \cup {6} ELSE @,
             !.crossed = @ \cup {6}]

InitialiseFluids ==
    /\ pc = "new"
    /\ Propagated("initialise_fluids", 6, "other",
                  initialise_fluids(CallState, propagated, conn))

\* starting compositions: the cooling inlets carry different fluids, the
\* outlets nothing yet
NoFluid == [f \in Fluids |-> 0]
PropConn ==
    [port \in Ports |->
        [BaseConn[port] EXCEPT !.fluid =
            CASE port = 0 -> PureFluid(num_nw_fluids)
              [] port = 1 -> PureFluid(1)
              [] port = 2 -> AirGas
              [] port = 3 -> FuelGas
              [] OTHER -> NoFluid]]

\* the fractions of the connections in S are set by the user
AllSet(S) == [port \in Ports |-> [f \in Fluids |-> port \in S]]

PropFlags ==
    {[NoProp EXCEPT !.val_set = AllSet(S),
                    !.good = [port \in Ports |-> port \in G],
                    !.closed = cl] :
        S \in {{}, {0, 1}, {0, 1, 5}}, G \in {{}, {4}},
        cl \in [0 .. 1 -> BOOLEAN]}

InitProp ==
    /\ InitAt({MaxFluids}, {SetOf({})}, {FALSE}, {NaN}, {PropConn},
              {NoT_v_inner})
    /\ m_SI = NaN
    /\ loop_SI = NaN
    /\ propagated \in PropFlags

NextProp ==
    \/ \E inconn \in 0 .. 3, start \in Starts :
          PropagateFluidToTarget(inconn, start)
    \/ \E outconn \in 4 .. 6, start \in Starts :
          PropagateFluidToSource(outconn, start)
    \/ InitialiseFluids

SpecProp == InitProp /\ [][NextProp]_vars

---------------------------------------------------------------------------
(* mass_flow_func on the doubles of the program.  A double between 1/16    *)
(* and 16 is a multiple of 2^-56: it is held as that multiple, a natural   *)
(* number below 2^60 written in three limbs <<low, middle, high>> of 20    *)
(* bits, so that every step stays inside the 32-bit integers.              *)

LimbBase == 1048576                \* 2^20
MantBits == 53                     \* significand of a binary64

BigAdd(a, b) ==
    LET s1 == a[1] + b[1]
        s2 == a[2] + b[2] + s1 \div LimbBase
    IN  <<s1 % LimbBase, s2 % LimbBase, a[3] + b[3] + s2 \div LimbBase>>

BigLess(a, b) ==
    IF a[3] # b[3] THEN a[3] < b[3]
    ELSE IF a[2] # b[2] THEN a[2] < b[2] ELSE a[1] < b[1]

\* a - b for a >= b
BigSub(a, b) ==
    LET b1 == IF a[1] < b[1] THEN 1 ELSE 0
        b2 == IF a[2] - b1 < b[2] THEN 1 ELSE 0
    IN  <<a[1] - b[1] + b1 * LimbBase, a[2] - b1 - b[2] + b2 * LimbBase,
          a[3] - b2 - b[3]>>

\* <<quotient, remainder>> of a by the small number n
BigDivSmall(a, n) ==
    LET t2 == (a[3] % n) * LimbBase + a[2]
        t1 == (t2 % n) * LimbBase + a[1]
    IN  << <<t1 \div n, t2 \div n, a[3] \div n>>, t1 % n >>

\* number of bits by which a exceeds MantBits bits
Excess(a) ==
    IF a[3] < 2 ^ (MantBits - 40) THEN 0
    ELSE CHOOSE k \in 1 .. 18 :
            2 ^ (MantBits - 41 + k) <= a[3] /\ a[3] < 2 ^ (MantBits - 40 + k)

round_toward_zero(a, rem, den) ==
    LET unit == 2 ^ Excess(a)
    IN  <<a[1] - (a[1] % unit), a[2], a[3]>>

\* a + rem / den rounded to MantBits significant bits, ties to even: the
\* rounding of every binary64 operation
round_half_even(a, rem, den) ==
    LET unit == 2 ^ Excess(a)
        low == a[1] % unit
        odd == (a[1] \div unit) % 2 = 1
        \* twice the discarded part against one unit in the last place
        above == 2 * low * den + 2 * rem > unit * den
        tie == 2 * low * den + 2 * rem = unit * den
        kept == <<a[1] - low, a[2], a[3]>>
    IN  IF above \/ (tie /\ odd) THEN BigAdd(kept, <<unit, 0, 0>>) ELSE kept

\* the double Python reads from the decimal literal d / 10
float_of_tenths(d) ==
    LET qr == BigDivSmall(<<0, 0, d * 2 ^ 16>>, 10)
    IN  round_half_even(qr[1], qr[2], 10)

\* a + b and a - b of two doubles; a difference is [neg, mag]
float_add(a, b) == round_half_even(BigAdd(a, b), 0, 1)
float_sub(a, b) ==
    IF BigLess(a, b)
    THEN [neg |-> TRUE, mag |-> round_half_even(BigSub(b, a), 0, 1)]
    ELSE [neg |-> FALSE, mag |-> round_half_even(BigSub(a, b), 0, 1)]

\* mass_flow_func on the doubles m[port] (val_SI of the seven mass flows)
mass_flow_func_SI(m) ==
    [r \in 0 .. 2 |->
        IF r < 2 THEN float_sub(m[r], m[num_i + r])
        ELSE float_sub(float_add(m[2], m[3]), m[6])]

MassFlowFunc ==
    /\ pc = "new"
    /\ m_SI # NaN
    /\ mass_residual' =
          <<mass_flow_func_SI([port \in Ports |-> float_of_tenths(m_SI[port])])>>
    /\ UNCHANGED <<pc, num_nw_fluids, always_all_equations, conn, val, is_set,
                   is_var, var_pos, P_design, num_vars, num_eq, residual,
                   jacobian, it, evald, increment_filter, last_eval,
                   bound_expr, bus_out, T_v_inner, entropy, m_SI, loop_SI,
                   fd, peer_seen, propagated>>

\* mass flows of 5 and 3 kg/s at the inlets of the cooling loops, the
\* cooling outlets equal to the inlets or one tenth off, and every
\* combustion mass flow in tenths
MassInputs ==
    {[port \in Ports |->
        CASE port = 0 -> 50 [] port = 4 -> 50 + d[1]
          [] port = 1 -> 30 [] port = 5 -> 30 + d[2]
          [] port = 2 -> d[3] [] port = 3 -> d[4] [] port = 6 -> d[5]] :
     d \in {0, 1} \X {0, -1} \X (1 .. MaxTenths) \X (1 .. MaxTenths)
              \X (1 .. (2 * MaxTenths))}

InitMass ==
    /\ InitAt({MaxFluids}, {SetOf({})}, {FALSE}, {NaN}, {BaseConn},
              {NoT_v_inner})
    /\ m_SI \in MassInputs
    /\ loop_SI = NaN
    /\ propagated = NoProp

NextMass == MassFlowFunc

SpecMass == InitMass /\ [][NextMass]_vars

---------------------------------------------------------------------------
(* Cooling loop 1 on the doubles: what calc_parameters stores in Q1 and    *)
(* pr1 and what Q1_func and the pr1 target return on it.  Mass flow and    *)
(* enthalpies are small whole numbers, on which every binary64 operation   *)
(* is exact; the pressures are whole multiples of 2^12 Pa (a scaling by a  *)
(* power of two changes no rounding), so the quotient p_out / p_in is a    *)
(* double between 1/16 and 16, held as before.                             *)

MaxPressure == 50                  \* pressures range over 1 .. MaxPressure

\* the double of the whole number n, n < 2^15
float_of_int(n) == <<0, 0, n * 2 ^ 16>>

\* a * n, exactly, for the double a and the whole number n < 2^11
BigMulSmall(a, n) ==
    LET s1 == a[1] * n
        s2 == a[2] * n + s1 \div LimbBase
    IN  <<s1 % LimbBase, s2 % LimbBase, a[3] * n + s2 \div LimbBase>>

\* a / n and a * n of the double a and the whole-numbered double n
float_div(a, n) ==
    LET qr == BigDivSmall(a, n)
    IN  round_half_even(qr[1], qr[2], n)
float_mul(a, n) == round_half_even(BigMulSmall(a, n), 0, 1)

\* the connections of the loop: in1 and out1 of l
LoopConn(l) ==
    [PostConn EXCEPT ![0].m = l.m, ![0].h = l.h_in, ![num_i].h = l.h_out]

\* calc_parameters, i = 0: Q1.val and pr1.val
loop_parameters_SI(l) ==
    [l EXCEPT !.Q = <<loop_parameters(LoopConn(l), val, 0)["Q1"]>>,
              !.pr = <<float_div(float_of_int(l.p_out), l.p_in)>>]

\* Q1_func() and "self.pr1.val * self.inl[0].p.val_SI -
\* self.outl[0].p.val_SI" on the stored values
loop_targets_SI(l) ==
    [l EXCEPT !.Q1_func =
                  <<Q1_func(LoopConn(l), [val EXCEPT !["Q1"] = l.Q[1]])>>,
              !.pr1_func =
                  <<float_sub(float_mul(l.pr[1], l.p_in),
                              float_of_int(l.p_out))>>]

CalcLoopParameters ==
    /\ pc = "new"
    /\ loop_SI # NaN
    /\ loop_SI.Q = NaN
    /\ loop_SI' = loop_parameters_SI(loop_SI)
    /\ UNCHANGED <<pc, num_nw_fluids, always_all_equations, conn, val, is_set,
                   is_var, var_pos, P_design, num_vars, num_eq, residual,
                   jacobian, it, evald, increment_filter, last_eval,
                   bound_expr, bus_out, T_v_inner, entropy, m_SI,
                   mass_residual, fd, peer_seen, propagated>>

LoopTargets ==
    /\ pc = "new"
    /\ loop_SI # NaN
    /\ loop_SI.Q # NaN
    /\ loop_SI.Q1_func = NaN
    /\ loop_SI' = loop_targets_SI(loop_SI)
    /\ UNCHANGED <<pc, num_nw_fluids, always_all_equations, conn, val, is_set,
                   is_var, var_pos, P_design, num_vars, num_eq, residual,
                   jacobian, it, evald, increment_filter, last_eval,
                   bound_expr, bus_out, T_v_inner, entropy, m_SI,
                   mass_residual, fd, peer_seen, propagated>>

\* mass flows of 1 and 2 kg/s, the coolant heated by 1 or 2 J/kg, and every
\* pair of pressures with p_in / 8 <= p_out <= p_in
LoopInputs ==
    {[m |-> d[1], h_in |-> 1, h_out |-> 1 + d[2], p_in |-> d[3],
      p_out |-> d[4], Q |-> NaN, pr |-> NaN, Q1_func |-> NaN,
      pr1_func |-> NaN] :
     d \in {dd \in (1 .. 2) \X (1 .. 2) \X (1 .. MaxPressure)
                     \X (1 .. MaxPressure) :
                dd[4] <= dd[3] /\ dd[3] <= 8 * dd[4]}}

InitLoop ==
    /\ InitAt({MaxFluids}, {SetOf({})}, {FALSE}, {NaN}, {PostConn},
              {NoT_v_inner})
    /\ m_SI = NaN
    /\ loop_SI \in LoopInputs
    /\ propagated = NoProp

NextLoop ==
    \/ CalcLoopParameters
    \/ LoopTargets

SpecLoop == InitLoop /\ [][NextLoop]_vars

---------------------------------------------------------------------------
(* Properties.                                                             *)

Initialised == pc # "new"
NumSetOptional == Cardinality({name \in OptSet : is_set[name]})
NumFree == Cardinality({name \in ParamSet : is_var[name]})

\* every division the program performs is exact on the state, so that the
\* integers of the model are the values of the program
ExactDivisions ==
    Initialised =>
        /\ P_design # NaN => Exact(val["P"], P_design[1])
        /\ \A char \in {tiP_char, Q1_char, Q2_char, Qloss_char} :
              \A i \in 1 .. (Len(char) - 1) : char[i + 1][1] - char[i][1] = 1
        /\ Exact(calc_ti(conn, val),
                 evaluate(tiP_char, load_ratio(conn, val)))
        /\ Exact(calc_ti(conn, val)
                     * evaluate(Qloss_char, load_ratio(conn, val)),
                 evaluate(tiP_char, load_ratio(conn, val)))
        /\ \A j \in 1 .. Len(DerivSeq(is_set)) :
              LET d == DerivSeq(is_set)[j]
              IN  /\ \A pos \in Ports : \A dx \in {"m", "p", "h"} :
                        Exact(EqValue(d, Shift(conn, pos, dx, d_conn), val)
                                  - EqValue(d, Shift(conn, pos, dx, -d_conn),
                                            val),
                              2 * d_conn)
                  /\ \A pos \in Ports : \A f \in Fluids :
                        Exact(EqValue(d, ShiftFluid(conn, pos, f, d_conn), val)
                                  - EqValue(d, ShiftFluid(conn, pos, f,
                                                          -d_conn), val),
                              2 * d_conn)
                  /\ \A name \in {"P", "Qloss"} :
                        Exact(EqValue(d, conn,
                                      [val EXCEPT ![name] = @ + d_param])
                                  - EqValue(d, conn,
                                            [val EXCEPT ![name] = @ - d_param]),
                              2 * d_param)

\* the same for the divisions of calc_parameters and the finite differences
\* of bus_deriv, in the specification that runs them
ExactPostDivisions ==
    /\ pc = "done" =>
              /\ \A i \in 0 .. 1 :
                    /\ Exact(conn[num_i + i].p, conn[i].p)
                    /\ Exact(conn[i].p - conn[num_i + i].p,
                             conn[i].m * conn[i].m)
              /\ LET v1 == loop_parameters(conn,
                                           loop_parameters(conn, val, 0), 1)
                     v2 == [v1 EXCEPT !["P"] = calc_P(conn, v1)]
                 IN  /\ P_design # NaN => Exact(v2["P"], P_design[1])
                     /\ Exact(calc_ti(conn, v2)
                                  * evaluate(Qloss_char, load_ratio(conn, v2)),
                              evaluate(tiP_char, load_ratio(conn, v2)))
              /\ Exact(conn[2].m * conn[2].fluid[2]
                           + conn[3].m * conn[3].fluid[2],
                       2 * fuel_in(conn))
    /\ pc \in {"upd", "post"} =>
        /\ \A param \in BusParams :
              /\ \A pos \in Ports : \A dx \in {"m", "h"} :
                    Exact(calc_bus_value(param, Shift(conn, pos, dx, d_conn),
                                         val)
                              - calc_bus_value(param,
                                               Shift(conn, pos, dx, -d_conn),
                                               val),
                          2 * d_conn)
              /\ \A pos \in Ports : \A f \in Fluids :
                    Exact(calc_bus_value(param,
                                         ShiftFluid(conn, pos, f, d_conn), val)
                              - calc_bus_value(param,
                                               ShiftFluid(conn, pos, f,
                                                          -d_conn), val),
                          2 * d_conn)
              /\ \A x \in {-d_param, d_param} :
                    LET v == [val EXCEPT !["P"] = @ + x]
                    IN  /\ Exact(calc_ti(conn, v),
                                 evaluate(tiP_char, load_ratio(conn, v)))
                        /\ Exact(calc_ti(conn, v)
                                     * evaluate(Qloss_char,
                                                load_ratio(conn, v)),
                                 evaluate(tiP_char, load_ratio(conn, v)))
              /\ Exact(calc_bus_value(param, conn,
                                      [val EXCEPT !["P"] = @ + d_param])
                           - calc_bus_value(param, conn,
                                            [val EXCEPT !["P"] = @ - d_param]),
                       2 * d_param)

\* the operating point of the scenarios solves every equation that is
\* active when only the power is fixed
BaseSolves ==
    (pc = "de" /\ it = 0 /\ num_nw_fluids >= 2 /\ conn = BaseConn)
    => \A k \in DOMAIN residual :
          EqSeq(is_set)[k + 1].eq # "pr1" => residual[k] = 0

\* C1: after comp_init the equation count is 3F + 10 plus the number of
\* fixed parameters among lamb, ti, Q1, Q2, pr1, pr2, zeta1, zeta2 (P and
\* Qloss add none, fixed or variable); the residual vector has num_eq
\* entries and the Jacobian num_eq rows, 7 + num_vars columns and F + 3
\* properties.
C1_EquationCount ==
    Initialised =>
        /\ num_eq = 3 * num_nw_fluids + 10 + NumSetOptional
        /\ num_vars = NumFree
        /\ DOMAIN residual = 0 .. (num_eq - 1)
        /\ DOMAIN jacobian = 0 .. (num_eq - 1)
        /\ \A k \in DOMAIN jacobian :
              /\ DOMAIN jacobian[k] = 0 .. (7 + num_vars - 1)
              /\ \A col \in DOMAIN jacobian[k] :
                    DOMAIN jacobian[k][col] = 0 .. (num_nw_fluids + 2)

\* a solve with P fixed, Qloss variable and three optional targets
C1_Witness ==
    /\ pc = "de"
    /\ is_set["P"] /\ ~is_set["Qloss"] /\ is_var["Qloss"]
    /\ NumSetOptional = 3
    /\ num_nw_fluids = 2
    /\ num_eq = 19
    /\ num_vars = 1

\* position (0-based row) of the first row of equation eq in a row list
\* that starts at row first; -1 when the list does not hold it
RowIn(rows, first, eq) ==
    IF \E j \in 1 .. Len(rows) : rows[j].eq = eq
    THEN first + (CHOOSE j \in 1 .. Len(rows) :
                     /\ rows[j].eq = eq
                     /\ \A i \in 1 .. (j - 1) : rows[i].eq # eq) - 1
    ELSE -1

FixedOrder ==
    <<"fluid", "mass", "pressure", "rb", "eb", "tiP", "Q1c", "Q2c", "Qlossc",
      "lamb", "ti", "Q1", "Q2", "pr1", "pr2", "zeta1", "zeta2">>

\* C2: for every combination of fixed optional parameters equations() and
\* derivatives() give every equation the same row, the rows follow the
\* fixed order (species equality, mass balance, pressure equality, reaction
\* balance per fluid, energy balance, the four characteristic couplings,
\* then the fixed targets lamb, ti, Q1, Q2, pr1, pr2, zeta1, zeta2), and
\* both row counters end at num_eq.
C2_SameRows ==
    Initialised =>
        LET eqs == EqSeq(is_set)
            des == DerivSeq(is_set)
        IN  /\ Len(eqs) = num_eq
            /\ DerivStart + Len(des) = num_eq
            /\ \A k \in DerivStart .. (num_eq - 1) :
                  eqs[k + 1] = des[k - DerivStart + 1]
            /\ \A i \in 1 .. Len(FixedOrder) : \A j \in 1 .. Len(FixedOrder) :
                  (/\ i < j
                   /\ RowIn(eqs, 0, FixedOrder[i]) >= 0
                   /\ RowIn(eqs, 0, FixedOrder[j]) >= 0)
                  => RowIn(eqs, 0, FixedOrder[i]) < RowIn(eqs, 0, FixedOrder[j])
            /\ \A name \in OptSet :
                  /\ (RowIn(eqs, 0, name) >= 0) = is_set[name]
                  /\ RowIn(eqs, 0, name) = RowIn(des, DerivStart, name)
            /\ RowIn(eqs, 0, "rb") = 2 * num_nw_fluids + 5
            /\ RowIn(eqs, 0, "eb") = 3 * num_nw_fluids + 5

\* both methods have run with Q1, Q2 and zeta2 fixed and ti free
C2_Witness ==
    /\ pc = "upd"
    /\ is_set["Q1"] /\ is_set["Q2"] /\ is_set["zeta2"] /\ ~is_set["ti"]
    /\ RowIn(DerivSeq(is_set), DerivStart, "Q2")
          = RowIn(EqSeq(is_set), 0, "Q1") + 1
    /\ jacobian[RowIn(DerivSeq(is_set), DerivStart, "Q2")][5][2] # 0

\* C3: comp_init does not fail on a missing power or heat loss: a P
\* (Qloss) the user did not fix is promoted to a free variable before the
\* free variables are counted and before the buffers are allocated, so after
\* comp_init both are active and every promoted variable has its own
\* column 7 + var_pos of the Jacobian.
C3_Promotion ==
    /\ pc = "new" => ENABLED CompInit
    /\ Initialised =>
          \A name \in {"P", "Qloss"} :
             /\ is_set[name] \/ is_var[name]
             /\ ~is_set[name] =>
                   /\ is_var[name]
                   /\ var_pos[name] < num_vars
                   /\ \A k \in DOMAIN jacobian :
                         7 + var_pos[name] \in DOMAIN jacobian[k]
                   /\ \A other \in {"P", "Qloss"} \ {name} :
                         is_var[other] => var_pos[other] # var_pos[name]

\* neither P nor Qloss was fixed: both were promoted
C3_Witness ==
    /\ pc = "eq"
    /\ ~is_set["P"] /\ ~is_set["Qloss"]
    /\ is_var["P"] /\ is_var["Qloss"]
    /\ num_vars = 2
    /\ DOMAIN jacobian[0] = 0 .. 8

\* C4: after comp_init no parameter is both fixed by the user and a free
\* variable.
C4_SetXorVar ==
    Initialised => \A name \in ParamSet : ~(is_set[name] /\ is_var[name])

\* P fixed and not promoted, Qloss promoted, after a full iteration
C4_Witness ==
    /\ pc = "upd"
    /\ is_set["P"] /\ ~is_var["P"]
    /\ ~is_set["Qloss"] /\ is_var["Qloss"]

\* one call of equations()
EquationsStep == pc = "eq" /\ pc' = "de"

\* the re-evaluation test of row k on the state before the call
TestBefore(k) ==
    GtErrSq(residual[k]) \/ it % 4 = 0 \/ always_all_equations

\* row k was evaluated by the call, and holds its equation's value, exactly
\* when cond; otherwise it holds what it held before
EvaluatedIff(k, cond) ==
    /\ (k \in evald') = cond
    /\ residual'[k] = IF cond THEN EqValue(EqSeq(is_set)[k + 1], conn, val)
                      ELSE residual[k]

\* the nonlinear rows: reaction balance, energy balance, the characteristic
\* couplings and the targets that are not linear in the state
Nonlinear(d) ==
    d.eq \in {"rb", "eb", "tiP", "Q1c", "Q2c", "Qlossc",
              "lamb", "ti", "Q1", "Q2", "zeta1", "zeta2"}

\* C5 as stated: every nonlinear row, the fixed targets lamb, ti, Q1, Q2
\* included, is evaluated exactly when its stored value exceeds err^2, or
\* it mod 4 = 0, or always_all_equations.
C5_EveryNonlinearRow ==
    [][EquationsStep =>
          \A k \in DOMAIN residual :
             Nonlinear(EqSeq(is_set)[k + 1]) => EvaluatedIff(k, TestBefore(k))]_vars

\* C5: in a call of equations() the rows of the reaction balance, the energy
\* balance, the four characteristic couplings and the fixed zeta1 and zeta2
\* targets are evaluated exactly when the stored value exceeds err^2, or
\* it mod 4 = 0, or always_all_equations, and keep their value otherwise;
\* every other row (the fixed lamb, ti, Q1, Q2, pr1, pr2 targets and the
\* linear rows) is evaluated in every call.
C5_SelectiveRows ==
    [][EquationsStep =>
          \A k \in DOMAIN residual :
             LET d == EqSeq(is_set)[k + 1]
             IN  IF d.eq \in {"rb", "eb", "tiP", "Q1c", "Q2c", "Qlossc",
                              "zeta1", "zeta2"}
                 THEN EvaluatedIff(k, TestBefore(k))
                 ELSE EvaluatedIff(k, TRUE)]_vars

\* off the forced iterations one guarded row was evaluated, another one was
\* kept although its equation has moved, and a fixed lamb target was
\* evaluated to zero
C5_Witness ==
    /\ pc = "de" /\ it % 4 # 0 /\ ~always_all_equations
    /\ is_set["lamb"]
    /\ \E k1 \in evald : \E k2 \in DOMAIN residual \ evald :
          /\ Guarded(EqSeq(is_set)[k1 + 1])
          /\ residual[k1] # 0
          /\ residual[k2] = 0
          /\ EqValue(EqSeq(is_set)[k2 + 1], conn, val) # 0
    /\ \E k \in evald :
          EqSeq(is_set)[k + 1].eq = "lamb" /\ residual[k] = 0

\* value of the equation of row k on the current state
Current(k) == EqValue(EqSeq(is_set)[k + 1], conn, val)

\* C6: whenever, after a call of equations(), every entry of the residual
\* buffer is below the solver tolerance, every active equation evaluated on
\* the current connection and parameter state is below it too.
C6_ConvergedMeansSolved ==
    (pc = "done" /\ Converged)
    => \A k \in DOMAIN residual : BelowTol(Current(k))

C8_FunctionOfState ==
    pc = "de" => \A k \in DOMAIN residual : residual[k] = Current(k)

\* C8: the residual vector left by equations() is determined by the current
\* state in the rows without re-evaluation test, and in every row when
\* it mod 4 = 0 or always_all_equations; in the other calls a guarded row
\* depends on the value stored by the previous call.
C8_ForcedRowsCurrent ==
    pc = "de" =>
        \A k \in DOMAIN residual :
           (\/ ~Guarded(EqSeq(is_set)[k + 1])
            \/ it % 4 = 0
            \/ always_all_equations)
           => residual[k] = Current(k)

\* with always_all_equations a guarded row that held zero follows the
\* state in the first iteration after the start
C8_Witness ==
    /\ pc = "de" /\ it = 1 /\ always_all_equations
    /\ \E k \in DOMAIN residual :
          /\ Guarded(EqSeq(is_set)[k + 1])
          /\ residual[k] # 0
          /\ residual[k] = Current(k)

\* row of the energy balance
EbRow == 3 * num_nw_fluids + 5

\* one call of derivatives(increment_filter)
DerivativesStep == pc = "de" /\ pc' = "upd"

\* the call left the entry (port, prop) of row k as it was
Kept(k, port, prop) == jacobian'[k][port][prop] = jacobian[k][port][prop]

\* C9 as stated: for every (port, property) whose increment_filter flag is
\* true, a call of derivatives() leaves the Jacobian entry of that port
\* and property unchanged in every row.
C9_FilteredKept ==
    [][DerivativesStep =>
          \A port \in Ports : \A prop \in Props :
             increment_filter'[port][prop] =>
                \A k \in DOMAIN jacobian : Kept(k, port, prop)]_vars

\* the entries of the row of equation d that derivatives() assigns without
\* consulting increment_filter
Unfiltered(d) ==
    CASE d.eq = "eb" ->
            {<<0, 0>>, <<1, 0>>} \cup {<<port, 2>> : port \in Ports}
                \cup {<<port, FluidCol(f)>> : port \in {2, 3, 6},
                                              f \in fuel_list}
      [] d.eq = "ti" ->
            {<<port, prop>> : port \in {2, 3, 6}, prop \in Props \ {1, 2}}
      [] d.eq = "Q1" -> {<<0, 0>>, <<0, 2>>, <<4, 2>>}
      [] d.eq = "Q2" -> {<<1, 0>>, <<1, 2>>, <<5, 2>>}
      [] d.eq = "pr1" -> {<<0, 1>>, <<4, 1>>}
      [] d.eq = "pr2" -> {<<1, 1>>, <<5, 1>>}
      [] OTHER -> {}

\* C9: a call of derivatives() leaves a flagged mass-flow, pressure or
\* enthalpy entry unchanged wherever the row obtains it by a finite
\* difference under the filter, and a flagged composition entry only when
\* every composition flag of its port is true; the closed-form entries of
\* the energy balance (cooling-water mass flow, all enthalpies, fuel
\* compositions) and the rows of the fixed ti, Q1, Q2, pr1, pr2 targets are
\* assigned whatever the flags.
C9_FilteredDifferencesKept ==
    [][DerivativesStep =>
          /\ \A k \in DOMAIN jacobian : \A port \in Ports : \A prop \in Props :
                (/\ increment_filter'[port][prop]
                 /\ prop >= 3 =>
                       \A f \in Fluids : increment_filter'[port][FluidCol(f)]
                 /\ <<port, prop>> \notin Unfiltered(EqSeq(is_set)[k + 1]))
                => Kept(k, port, prop)
          /\ \A i \in {0, 1} :
                jacobian'[EbRow][i][0] = -(conn[num_i + i].h - conn[i].h)
          /\ \A i \in Inlets : jacobian'[EbRow][i][2] = conn[i].m]_vars

\* second call with every flag true: a finite-difference entry of the
\* first heat-output characteristic is kept although the derivative has
\* moved, next to a cooling-water entry of the energy balance that follows
\* the state
C9_Witness ==
    /\ pc = "upd" /\ it = 1
    /\ increment_filter = AllFilter
    /\ jacobian[EbRow + 2][0][0] # 0
    /\ jacobian[EbRow + 2][0][0] # numeric_deriv(f_Q1c, "m", 0, conn, val)
    /\ jacobian[EbRow][0][0] = -(conn[4].h - conn[0].h)
    /\ jacobian[EbRow][0][0] # -(StartConn[4].h - StartConn[0].h)

\* h_ref of one port: mixture enthalpy at 298.15 K, 1e5 Pa, gas forced
h_ref(i) == h_mix_pT(100000, conn[i].fluid, 29815, TRUE)

C11_OneLoadRatio ==
    Initialised =>
        LET expr == IF P_design = NaN THEN 1 ELSE val["P"] \div P_design[1]
            ti == calc_ti(conn, val)
            f_TI == evaluate(tiP_char, expr)
            Q(i) == conn[i].m * (conn[num_i + i].h - conn[i].h)
        IN  /\ tiP_char_func(conn, val) = ti + f_TI * val["P"]
            /\ Q1_char_func(conn, val)
                  = ti * evaluate(Q1_char, expr) - f_TI * Q(0)
            /\ Q2_char_func(conn, val)
                  = ti * evaluate(Q2_char, expr) - f_TI * Q(1)
            /\ Qloss_char_func(conn, val)
                  = ti * evaluate(Qloss_char, expr) + f_TI * val["Qloss"]
            /\ calc_P(conn, val) = (-ti) \div f_TI
            /\ calc_Qloss(conn, val)
                  = (-ti * evaluate(Qloss_char, expr)) \div f_TI
            \* the rows equations() has just evaluated hold these values
            /\ pc = "de" =>
                  \A k \in evald :
                      LET eq == EqSeq(is_set)[k + 1].eq
                      IN  /\ eq = "tiP" => residual[k] = ti + f_TI * val["P"]
                          /\ eq = "Q1c" =>
                                residual[k] = ti * evaluate(Q1_char, expr)
                                                  - f_TI * Q(0)
                          /\ eq = "Q2c" =>
                                residual[k] = ti * evaluate(Q2_char, expr)
                                                  - f_TI * Q(1)
                          /\ eq = "Qlossc" =>
                                residual[k] = ti * evaluate(Qloss_char, expr)
                                                  + f_TI * val["Qloss"]
            \* the bound diagnostics of calc_parameters
            /\ pc = "post" => bound_expr = <<expr>>

\* calc_parameters has run off the design point: the load ratio is 2
C11_Witness ==
    /\ pc = "post"
    /\ P_design # NaN
    /\ bound_expr = <<2>>
    /\ val["P"] = 2 * P_design[1]

\* C12: bus_func and bus_deriv accept exactly the names TI, P, Q, Q1, Q2 and
\* Qloss; with any other name the call raises ValueError, returns nothing
\* and changes neither the residual, the Jacobian, the parameters nor the
\* connection state
C12_BusNames ==
    [][bus_out' # bus_out =>
          /\ bus_out'.call \in {"bus_func", "bus_deriv"}
          /\ bus_out'.raised
                <=> bus_out'.param \notin {"TI", "P", "Q", "Q1", "Q2", "Qloss"}
          /\ bus_out'.raised
                <=> (bus_out'.val = << >> /\ bus_out'.deriv = << >>)
          /\ UNCHANGED <<residual, jacobian, val, is_set, is_var, var_pos,
                         P_design, conn, num_vars, num_eq, it, T_v_inner,
                         entropy, bound_expr>>]_vars

\* during the solve, bus_deriv has been asked for a name it does not know
C12_Witness ==
    /\ bus_out.call = "bus_deriv"
    /\ bus_out.param = "Q3"
    /\ bus_out.raised
    /\ pc = "upd"

Zero3 == <<0, 0, 0>>
Zeros(res) == {r \in 0 .. 2 : res[r].mag = Zero3}

\* C13 as stated: mass_flow_func returns [0, 0, 0] whenever in1.m = out1.m,
\* in2.m = out2.m and in3.m + in4.m = out3.m (as for 5, 3, 0.2, 0.1 and 5,
\* 3, 0.3), and at least one nonzero residual otherwise
C13_ZeroIffBalanced ==
    mass_residual # NaN =>
        (Zeros(mass_residual[1]) = {0, 1, 2}
            <=> /\ m_SI[0] = m_SI[4]
                /\ m_SI[1] = m_SI[5]
                /\ m_SI[2] + m_SI[3] = m_SI[6])

\* C13, amended: the residuals are in1.m - out1.m, in2.m - out2.m and
\* (in3.m + in4.m) - out3.m in double precision; the first two are 0
\* exactly when the mass flows are equal, the third exactly when the
\* rounded sum of the two doubles in3.m and in4.m is the double out3.m
C13_ZeroIffDoublesBalance ==
    mass_residual # NaN =>
        LET m == [port \in Ports |-> float_of_tenths(m_SI[port])]
            res == mass_residual[1]
            sum == BigAdd(m[2], m[3])
            unit == 2 ^ Excess(sum)
            low == sum[1] % unit
            down == <<sum[1] - low, sum[2], sum[3]>>
            rounded ==
                IF 2 * low > unit
                      \/ (2 * low = unit /\ (sum[1] \div unit) % 2 = 1)
                THEN BigAdd(down, <<unit, 0, 0>>) ELSE down
        IN  /\ DOMAIN res = 0 .. 2
            /\ res[0].mag = Zero3 <=> m_SI[0] = m_SI[4]
            /\ res[1].mag = Zero3 <=> m_SI[1] = m_SI[5]
            /\ res[2].mag = Zero3 <=> rounded = m[6]
            /\ \A r \in 0 .. 1 : res[r].neg <=> m_SI[r] < m_SI[num_i + r]
            /\ res[2].neg <=> BigLess(rounded, m[6])
            \* a difference of doubles within a factor of two is exact
            /\ (~BigLess(rounded, m[6])
                   /\ ~BigLess(BigAdd(m[6], m[6]), rounded))
                  => BigAdd(res[2].mag, m[6]) = rounded

\* the mass flows 5, 3, 0.2, 0.1 and 5, 3, 0.3: the third residual is
\* 4 * 2^-56 = 2^-54, about 5.55e-17
C13_Witness ==
    /\ mass_residual # NaN
    /\ m_SI = [port \in Ports |->
                  CASE port = 0 -> 50 [] port = 4 -> 50 [] port = 1 -> 30
                    [] port = 5 -> 30 [] port = 2 -> 2 [] port = 3 -> 1
                    [] port = 6 -> 3]
    /\ mass_residual[1][2] = [neg |-> FALSE, mag |-> <<4, 0, 0>>]

CalcParametersStep == pc = "done" /\ pc' = "post"

\* C14: when the solve has converged, calc_parameters leaves a user-fixed
\* P.val equal to the value the user fixed, and likewise a user-fixed Q1
\* and pr1
C14_FixedValuesKept ==
    [][CalcParametersStep =>
          \A name \in {"P", "Q1", "pr1"} :
              is_set[name] => val'[name] = val[name]]_vars

\* the component is inside equations() or derivatives()
Assembling == pc \in {"eq", "de", "fd"} /\ pc' \in {"de", "fd", "upd"}

\* C15: while the residuals and the Jacobian are assembled, the component
\* never writes connection state, the finite-difference evaluations
\* included, so that a component sharing a connection and running
\* concurrently reads what it would read in a sequential run
C15_AssemblyReadsConnections ==
    [][/\ Assembling => conn' = conn
       /\ (pc' = "upd" /\ peer_seen' # NaN /\ peer_seen'.it = it')
             => /\ peer_seen'.m = conn'[0].m
                /\ peer_seen'.h = conn'[0].h]_vars

\* C17: with the iteration counter starting at 0 and growing by one per
\* call, the first call of equations() evaluates every row, and after every
\* call each row has been evaluated in that call or in one of the three
\* calls before it
C17_NeverStaleBeyondThree ==
    pc = "de" =>
        /\ DOMAIN last_eval = 0 .. (num_eq - 1)
        /\ it = 0 => \A k \in DOMAIN last_eval : last_eval[k] = 0
        /\ \A k \in DOMAIN last_eval :
              /\ last_eval[k] >= 0
              /\ it - last_eval[k] <= 3

C17_Witness ==
    /\ pc = "de"
    /\ it = 3
    /\ \E k \in DOMAIN last_eval :
          /\ Guarded(EqSeq(is_set)[k + 1])
          /\ last_eval[k] = 0
          /\ residual[k] = 0
          /\ EqValue(EqSeq(is_set)[k + 1], conn, val) # 0

\* the last row of the constant blocks
LastConstantRow == num_nw_fluids * 2 + 4

\* C18: once comp_init has filled them, the Jacobian rows 0 .. 2F+4
\* (species equality, mass balance, combustion pressure equality) are not
\* modified by derivatives(), equations(), bus_func, bus_deriv or
\* calc_parameters
C18_ConstantRowsKept ==
    [][pc # "new" =>
          /\ DOMAIN jacobian' = DOMAIN jacobian
          /\ \A k \in 0 .. (num_nw_fluids * 2 + 4) :
                jacobian'[k] = jacobian[k]]_vars

C18_Witness ==
    /\ pc = "post"
    /\ it >= 1
    /\ bus_out.call = "bus_deriv"
    /\ ~bus_out.raised
    /\ \E k \in DOMAIN jacobian :
          k > LastConstantRow /\ jacobian[k] # ZeroRow(num_vars)
    /\ \A k \in 0 .. LastConstantRow :
          /\ jacobian[k] = initial_jacobian(num_eq, num_vars)[k]
          /\ jacobian[k] # ZeroRow(num_vars)

\* the connection state with the Jacobian coordinate (port, prop) moved by
\* d: prop 0, 1, 2 are m, p, h and prop 3.. the mass fractions
ShiftEntry(c, port, prop, d) ==
    IF prop = 0 THEN Shift(c, port, "m", d)
    ELSE IF prop = 1 THEN Shift(c, port, "p", d)
    ELSE IF prop = 2 THEN Shift(c, port, "h", d)
    ELSE ShiftFluid(c, port, prop - 2, d)

\* the partial derivative of the linear residual of row d with respect to
\* the coordinate (col, prop): its increase per unit step, 0 for the
\* columns of the component variables
LinearPartial(d, col, prop, c, v) ==
    IF col \in Ports
    THEN EqValue(d, ShiftEntry(c, col, prop, 1), v) - EqValue(d, c, v)
    ELSE 0

\* C19: for every number of fluids F >= 1, each entry of the Jacobian rows
\* 0 .. 2F+4 filled by fluid_deriv, mass_flow_deriv and pressure_deriv is
\* the partial derivative of the residual that fluid_func, mass_flow_func
\* and the two pressure equations store in the same row; in particular
\* every entry outside the +1 / -1 pattern is 0
C19_ConstantBlocksExact ==
    pc # "new" =>
        \A k \in 0 .. (num_nw_fluids * 2 + 4) :
            \A col \in Cols(num_vars) : \A prop \in Props :
                jacobian[k][col][prop] =
                    LinearPartial(EqSeq(is_set)[k + 1], col, prop, conn, val)

C19_Witness ==
    /\ pc = "upd"
    /\ num_nw_fluids = 1
    /\ num_vars = 2
    /\ jacobian[1][1][3] = 1
    /\ jacobian[1][5][3] = -1
    /\ jacobian[0][0][3] = 1
    /\ jacobian[0][4][3] = -1
    /\ residual[1] = conn[1].fluid[1] - conn[5].fluid[1]

\* the entries of the energy-balance row that derivatives() writes in
\* closed form without a finite difference: m of in1 and in2, h of all ports
EbClosedForm == {<<0, 0>>, <<1, 0>>} \cup {<<port, 2>> : port \in Ports}

\* C20: in every state, the mass balance holding or not, the closed-form
\* entries of the energy-balance row (mass flow of in1 and in2, enthalpy of
\* the seven ports) are the partial derivatives of energy_balance()
C20_ClosedFormPartials ==
    pc = "upd" =>
        \A e \in EbClosedForm :
            jacobian[EbRow][e[1]][e[2]] =
                LinearPartial(f_eb, e[1], e[2], conn, val)

\* one call of entropy_balance()
EntropyBalanceStep == pc = "post" /\ entropy' # entropy

\* the entropy diagnostics are defined: no division by zero, the pressure
\* ratios are perfect squares
EntropyDefined ==
    pc = "post" =>
        /\ \A name \in {"pr1", "pr2"} : \E r \in 0 .. val[name] :
              r * r = val[name]
        /\ entropy # NaN =>
              /\ entropy.T_mQ1[2] # 0
              /\ entropy.T_mQ2[2] # 0
              /\ entropy.T_mcomb[2] # 0
              /\ entropy.S_irr[2] > 0

\* C16: entropy_balance() changes neither the residual vector, nor the
\* Jacobian, nor a connection, nor the value or a flag of P, Q1, Q2, Qloss,
\* ti, lamb, pr1, pr2, zeta1, zeta2; it writes the entropy diagnostics, and
\* T_v_inner becomes the temperature of the flue gas at out3 when it is not
\* set by the user and keeps the user's value when it is
C16_EntropyBalanceFrame ==
    [][EntropyBalanceStep =>
          /\ residual' = residual
          /\ jacobian' = jacobian
          /\ conn' = conn
          /\ val' = val
          /\ is_set' = is_set
          /\ is_var' = is_var
          /\ P_design' = P_design
          /\ T_v_inner'.is_set = T_v_inner.is_set
          /\ T_v_inner.is_set => T_v_inner'.val = T_v_inner.val
          /\ ~T_v_inner.is_set =>
                T_v_inner'.val = <<300 + 50 * conn[6].h>>]_vars

C16_Witness ==
    /\ pc = "post"
    /\ entropy # NaN
    /\ T_v_inner = [val |-> <<400>>, is_set |-> TRUE]
    /\ 300 + 50 * conn[6].h = 500
    /\ entropy.S_Q11 = <<val["Q1"], 400>>
    /\ entropy.P_irr_i[1] # 0

\* C21: the composition columns of the energy-balance row are the partial
\* derivatives of energy_balance() with respect to the mass fractions:
\* m * LHV at in3 and in4 and -m * LHV at out3 for a fuel, 0 for every other
\* species and at every cooling-loop port
C21_CompositionPartials ==
    pc = "upd" =>
        \A port \in Ports : \A f \in Fluids :
            /\ jacobian[EbRow][port][FluidCol(f)] =
                  (IF f \in fuel_list /\ port \in {2, 3}
                   THEN conn[port].m * LHV(f)
                   ELSE IF f \in fuel_list /\ port = 6
                        THEN -(conn[port].m * LHV(f))
                   ELSE 0)
            /\ jacobian[EbRow][port][FluidCol(f)] =
                  LinearPartial(f_eb, port, FluidCol(f), conn, val)

\* C24: fluid propagation never runs along the combustion ports:
\* propagate_fluid_to_target assigns only out1 and out2 and hands only these
\* to a neighbour, propagate_fluid_to_source only in1 and in2, a composition
\* that arrives at a combustion port is copied nowhere, and
\* initialise_fluids hands no composition across in3, in4 or out3 to a
\* neighbouring component
C24_NoCombustionPropagation ==
    /\ propagated.call = "propagate_fluid_to_target" =>
          /\ propagated.written \subseteq {4, 5}
          /\ propagated.crossed \subseteq {4, 5}
    /\ propagated.call = "propagate_fluid_to_source" =>
          /\ propagated.written \subseteq {0, 1}
          /\ propagated.crossed \subseteq {0, 1}
    /\ propagated.inconn \in {2, 3, 6}
          /\ propagated.call # "initialise_fluids"
          => propagated.written = {}
    /\ propagated.call = "initialise_fluids" =>
          propagated.crossed \cap {2, 3, 6} = {}

\* C25: fluid propagation terminates, also when the cooling loops lead back
\* to the engine: no call of propagate_fluid_to_target or
\* propagate_fluid_to_source runs into the recursion limit
C25_PropagationTerminates ==
    propagated.call \in {"propagate_fluid_to_target",
                         "propagate_fluid_to_source"}
        => ~propagated.error

\* C26: a composition arriving at in_k or out_k of cooling loop k is copied
\* only within loop k, the connections of the other loop keep their
\* composition, and a fraction that is set by the user or belongs to a
\* connection with good starting values is never overwritten
C26_SameLoopOnly ==
    [][/\ \A k \in 0 .. 1 :
             (/\ propagated'.call \in {"propagate_fluid_to_target",
                                       "propagate_fluid_to_source"}
              /\ propagated'.inconn \in {k, num_i + k})
             => /\ conn'[1 - k].fluid = conn[1 - k].fluid
                /\ conn'[num_i + 1 - k].fluid = conn[num_i + 1 - k].fluid
       /\ \A port \in Ports : \A f \in Fluids :
             (propagated.val_set[port][f] \/ propagated.good[port])
             => conn'[port].fluid[f] = conn[port].fluid[f]]_vars

\* C22: after calc_parameters() the stored power and heat loss satisfy their
\* closed forms at the load ratio r of the stored power (r = P.val / P.design
\* after the call, 1 without a design value): P.val = -calc_ti() / tiP_char(r)
\* and Qloss.val = -calc_ti() * Qloss_char(r) / tiP_char(r); the bound
\* diagnostic of the curves runs at this r
C22_ClosedFormsAfterPost ==
    pc = "post" =>
        LET r == IF P_design = NaN THEN 1 ELSE val["P"] \div P_design[1]
            ti == Sum([f \in fuel_list |->
                          (conn[2].m * conn[2].fluid[f]
                              + conn[3].m * conn[3].fluid[f]
                              - conn[6].m * conn[6].fluid[f]) * LHV(f)],
                      fuel_list)
        IN  /\ val["P"] * evaluate(tiP_char, r) = -ti
            /\ val["Qloss"] * evaluate(tiP_char, r)
                  = -(ti * evaluate(Qloss_char, r))
            /\ bound_expr = <<r>>

\* the shapes of the residual vector and of the Jacobian
Shapes(res, jac) ==
    [res |-> DOMAIN res,
     jac |-> [k \in DOMAIN jac |->
                 [col \in DOMAIN jac[k] |-> DOMAIN jac[k][col]]]]

\* C23: after comp_init no operation (equations, derivatives, bus_func,
\* bus_deriv, calc_parameters, entropy_balance, the driver's updates)
\* changes is_set, is_var or var_pos of a parameter, num_eq, num_vars or the
\* shapes of the residual vector and the Jacobian: the columns
\* 7 + var_pos of P and Qloss are the same in every iteration of a solve
C23_StructureFrozen ==
    [][pc # "new" =>
          /\ is_set' = is_set
          /\ is_var' = is_var
          /\ var_pos' = var_pos
          /\ T_v_inner'.is_set = T_v_inner.is_set
          /\ num_eq' = num_eq
          /\ num_vars' = num_vars
          /\ Shapes(residual', jacobian') = Shapes(residual, jacobian)]_vars

\* a solve with P and Qloss free that went through three iterations, the
\* post-processing, the entropy balance and a bus_deriv call
C23_Witness ==
    /\ pc = "post"
    /\ it >= 2
    /\ is_var["P"] /\ is_var["Qloss"]
    /\ var_pos["P"] # var_pos["Qloss"]
    /\ entropy # NaN
    /\ bus_out.call = "bus_deriv" /\ ~bus_out.raised

\* equality of two quotients
FEq(a, b) == a[1] * b[2] = b[1] * a[2]

\* C27: entropy_balance leaves P_irr_i = (1 - 1 / eta_mech) * P and
\* S_irr_i = P_irr_i / T_v_inner, with eta_mech = 0.85
C27_InnerIrreversibility ==
    entropy # NaN =>
        /\ FEq(eta_mech, <<85, 100>>)
        /\ FEq(entropy.P_irr_i,
               FMul(FSub(Whole(1), FDiv(Whole(1), eta_mech)),
                    Whole(val["P"])))
        /\ FEq(entropy.S_irr_i,
               FDiv(entropy.P_irr_i, Whole(T_v_inner.val[1])))

\* one unit in the last place of the double a
Ulp(a) == 2 ^ Excess(a)

\* the distance from the double a to the next double below it: half a unit
\* where a is a power of two
GapBelow(a) ==
    IF a = <<0, 0, 2 ^ (MantBits - 41 + Excess(a))>>
    THEN Ulp(a) \div 2 ELSE Ulp(a)

\* |a - b| of two doubles, exactly
BigDist(a, b) == IF BigLess(a, b) THEN BigSub(b, a) ELSE BigSub(a, b)

C29_WritesInBounds ==
    pc # "new" =>
        LET eqs == EqSeq(is_set)
            des == DerivSeq(is_set)
        IN  /\ DOMAIN residual = 0 .. (num_eq - 1)
            /\ DOMAIN jacobian = 0 .. (num_eq - 1)
            \* comp_init: jacobian[0:pos], [pos:pos + 3], [pos + 3:pos + 5]
            /\ num_nw_fluids * 2 + 5 <= num_eq
            \* equations(): k runs from 0
            /\ \A j \in 1 .. Len(eqs) : j - 1 \in DOMAIN residual
            \* derivatives(): k runs from DerivStart
            /\ \A j \in 1 .. Len(des) :
                  /\ DerivStart + j - 1 \in DOMAIN jacobian
                  /\ LET ws == WritesOf(des[j], NoFilter, conn, val)
                     IN  \A n \in 1 .. Len(ws) :
                            /\ ws[n][1] \in 0 .. (7 + num_vars - 1)
                            /\ ws[n][1] \in DOMAIN jacobian[DerivStart + j - 1]
                            /\ ws[n][2] \in 0 .. (num_nw_fluids + 2)
            /\ (is_var["P"] /\ is_var["Qloss"])
                  => 7 + var_pos["P"] # 7 + var_pos["Qloss"]

\* all eight targets fixed, P and Qloss free: derivatives() has written the
\* last row 3F + 17 and the columns 7 and 8
C29_Witness ==
    /\ pc = "upd"
    /\ \A name \in OptSet : is_set[name]
    /\ is_var["P"] /\ is_var["Qloss"]
    /\ num_eq = 3 * num_nw_fluids + 18
    /\ {7 + var_pos["P"], 7 + var_pos["Qloss"]} = {7, 8}
    /\ Len(DerivSeq(is_set)) + DerivStart = num_eq

=============================================================================
